---------------------------- MODULE Spec2Model ----------------------------
(***************************************************************************)
(* A model of the replication core of the Redis-compatible server:         *)
(* one master, its replicas, the replication links between them and the    *)
(* client connections of each server.  Every connection is one task        *)
(* running Connection::handle; the tasks of one server share its Server    *)
(* struct behind a mutex, its broadcast channel and its wait channel.      *)
(***************************************************************************)
EXTENDS Integers, Sequences, FiniteSets, TLC

(***************************************************************************)
(* Bounds of the model.                                                    *)
(***************************************************************************)
\* socket reads that clients may cause, over all client connections
MaxReads == 3
\* the most frames one socket read of a replication link may return
MaxCoalesce == 2
\* the largest offset the decimal parser of the model looks for
MaxOffset == 600

(***************************************************************************)
(* The servers and their connections.  An endpoint <<n, p>> is the         *)
(* Connection that server n holds towards peer p.                          *)
(***************************************************************************)
Master == "M"
Replicas == {"R1"}
Nodes == {Master} \cup Replicas
MasterClients == {"c1", "c2"}
ReplicaClients == {"c3"}

LinkOnMaster == {<<Master, r>> : r \in Replicas}
LinkOnReplica == {<<r, Master>> : r \in Replicas}
ClientEnds == {<<Master, c>> : c \in MasterClients}
                 \cup {<<r, c>> : r \in Replicas, c \in ReplicaClients}
Ends == LinkOnMaster \cup LinkOnReplica \cup ClientEnds

Node(e) == e[1]
PeerEnd(e) == <<e[2], e[1]>>
HasPeer(e) == e[2] \in Nodes

\* Role::is_master: the role is fixed by Server::configure before run
is_master(n) == n = Master

\* Kind::Replication is given to the connection send_handshake opens
Kind(e) == IF e \in LinkOnReplica THEN "Replication" ELSE "Main"

(***************************************************************************)
(* RESP values.  a is the payload: the elements of an Array of bulk        *)
(* strings, or the one string of a simple value.  id is the publish        *)
(* number of a broadcast message (0 for everything else); the code never   *)
(* reads it.                                                               *)
(***************************************************************************)
Array(a) == [t |-> "Array", a |-> a, id |-> 0]
SimpleString(s) == [t |-> "SimpleString", a |-> <<s>>, id |-> 0]
SimpleError(s) == [t |-> "SimpleError", a |-> <<s>>, id |-> 0]
Integer(n) == [t |-> "Integer", a |-> <<ToString(n)>>, id |-> 0]
RDBFile == [t |-> "RDBFile", a |-> <<>>, id |-> 0]
BulkString(s) == [t |-> "BulkString", a |-> <<s>>, id |-> 0]

\* the decoded length of EMPTY_RDB
EmptyRdbLen == 88

RECURSIVE SumLen(_)
SumLen(a) == IF a = <<>> THEN 0
             ELSE 1 + Len(ToString(Len(Head(a)))) + 2 + Len(Head(a)) + 2 + SumLen(Tail(a))

\* Type::as_bytes().len()
as_bytes_len(f) ==
    CASE f.t = "Array" -> 1 + Len(ToString(Len(f.a))) + 2 + SumLen(f.a)
      [] f.t = "RDBFile" -> 1 + Len(ToString(EmptyRdbLen)) + 2 + EmptyRdbLen
      [] f.t = "BulkString" -> SumLen(f.a)
      [] OTHER -> 1 + Len(f.a[1]) + 2

\* Type::as_bytes() of a bulk string and of an array of bulk strings
bulk_bytes(s) == "$" \o ToString(Len(s)) \o "\r\n" \o s \o "\r\n"

RECURSIVE elements_bytes(_)
elements_bytes(a) == IF a = <<>> THEN "" ELSE bulk_bytes(Head(a)) \o elements_bytes(Tail(a))

\* Type::as_bytes() of the values a handler writes
as_bytes(f) ==
    CASE f.t = "SimpleString" -> "+" \o f.a[1] \o "\r\n"
      [] f.t = "SimpleError" -> "-" \o f.a[1] \o "\r\n"
      [] f.t = "Integer" -> ":" \o f.a[1] \o "\r\n"
      [] f.t = "BulkString" -> bulk_bytes(f.a[1])
      [] f.t = "Array" -> "*" \o ToString(Len(f.a)) \o "\r\n" \o elements_bytes(f.a)

RECURSIVE BytesOf(_)
BytesOf(fs) == IF fs = <<>> THEN 0 ELSE as_bytes_len(Head(fs)) + BytesOf(Tail(fs))

\* str::to_uppercase on the words the model uses
to_uppercase(s) ==
    CASE s = "listening-port" -> "LISTENING-PORT"
      [] s = "capa" -> "CAPA"
      [] s = "psync2" -> "PSYNC2"
      [] OTHER -> s

\* str::parse::<u64>: the number a decimal string spells, -1 when it spells none
parse_u64(s) ==
    IF \E n \in 0..MaxOffset : ToString(n) = s
    THEN CHOOSE n \in 0..MaxOffset : ToString(n) = s
    ELSE -1

Min(a, b) == IF a < b THEN a ELSE b

\* helpers::generate_id(40): one value of the random 40-character id
master_replid == "8371b4fb1155b71f4a04d3e1bc3e18c4a990aeeb"

\* the port a replica listens on
ReplicaPort == "6380"

(***************************************************************************)
(* The frames of the handshake, in the order send_handshake sends them.    *)
(***************************************************************************)
HandshakeFrames ==
    << Array(<<"PING">>),
       Array(<<"REPLCONF", "listening-port", ReplicaPort>>),
       Array(<<"REPLCONF", "capa", "psync2">>),
       Array(<<"PSYNC", "?", "-1">>) >>

GetAckCmd == <<"REPLCONF", "GETACK", "*">>
SetCmd == <<"SET", "k", "v">>
SetPxCmd == <<"SET", "k", "v", "PX", "100">>

\* what one socket read of a client connection may hold: c1 writes and
\* waits, c2 only waits, c3 sends a replica the commands of a master
Requests(e) ==
    CASE e = <<Master, "c1">> ->
           { <<Array(SetCmd)>>,
             <<Array(SetPxCmd)>>,
             <<Array(GetAckCmd)>>,
             <<Array(<<"WAIT", "1", "100">>)>>,
             <<Array(<<"WAIT", "2", "0">>)>> }
      [] e = <<Master, "c2">> ->
           { <<Array(<<"WAIT", "1", "100">>)>> }
      [] OTHER ->
           { <<Array(<<"WAIT", "1", "100">>)>>,
             <<Array(<<"PSYNC", "?", "-1">>)>> }

\* Item of database/mod.rs; expires_at = -1 is None, NoItem an absent key.
\* value is the payload of a bulk string; stream holds the entries when the
\* value is a stream, which is never empty.
Keys == {"k", "s"}
Item(value, created_at, expires_at) ==
    [value |-> value, created_at |-> created_at, expires_at |-> expires_at, stream |-> <<>>]
Stream(entries, created_at) ==
    [value |-> "", created_at |-> created_at, expires_at |-> -1, stream |-> entries]
NoItem == Item("", 0, -2)

NoWait == [target |-> 0, n |-> 0, desired |-> 0, synced |-> 0, budget |-> 0,
           regs |-> {}, acked |-> {}, offset |-> 0, start |-> 0, getack |-> 0]

VARIABLES
    pc,                 \* where each connection task stands
    hs,                 \* the handshake step of a replica's link
    buf,                \* the parsed values of the current read still to handle
    buflen,             \* bytes_read of the current read
    sock,               \* the frames waiting to be read by each endpoint
    out,                \* history: the frames each endpoint wrote
    master_repl_offset, \* Server.master_repl_offset
    repl_offset,        \* Server.repl_offset
    replicas,           \* Server.replicas
    db,                 \* Server.db.data
    lock,               \* the tasks (none or one) holding the Server mutex across awaits
    subs,               \* the receivers of Server.sender
    bq,                 \* the broadcast ring of each receiver
    wc,                 \* the wait channel
    w,                  \* the locals of a WAIT in progress; offset: what a task is sending on the wait channel
    quota,              \* client reads left
    nextId,             \* history: publish number of the next broadcast
    linkBytes,          \* history: encoded length of the commands read from the link
    doneBytes,          \* history: encoded length of the link commands fully handled
    setBytes,           \* history: encoded length of the SETs that succeeded
    lastAck,            \* history: <<offset acknowledged, doneBytes then>>
    now,                \* the clock, in ms
    askedPx,            \* history: the PX of the last SET of each key that succeeded, -1 for none
    codec,              \* a run of the codec: the values, their bytes, what parse made of them
    wcFrom              \* history: for each offset in the wait channel, who sent it and the
                        \* publish number of the GETACK it answers, 0 for none

vars == <<pc, hs, buf, buflen, sock, out, master_repl_offset, repl_offset, replicas,
          db, lock, subs, bq, wc, w, quota, nextId, linkBytes, doneBytes, setBytes,
          lastAck, now, askedPx, codec, wcFrom>>

\* the state after Server::run bound its listener, the clients having q reads
Wiring(q) ==
    /\ pc = [e \in Ends |-> IF e \in LinkOnReplica THEN "hs_send" ELSE "read"]
    /\ hs = [e \in LinkOnReplica |-> 1]
    /\ buf = [e \in Ends |-> <<>>]
    /\ buflen = [e \in Ends |-> 0]
    /\ sock = [e \in Ends |-> <<>>]
    /\ out = [e \in Ends |-> <<>>]
    /\ master_repl_offset = [n \in Nodes |-> 0]
    /\ repl_offset = [n \in Nodes |-> 0]
    /\ replicas = [n \in Nodes |-> <<>>]
    /\ db = [n \in Nodes |-> [k \in Keys |-> NoItem]]
    /\ lock = [n \in Nodes |-> {}]
    /\ subs = [n \in Nodes |-> {}]
    /\ bq = [e \in Ends |-> <<>>]
    /\ wc = [n \in Nodes |-> <<>>]
    /\ w = [e \in Ends |-> NoWait]
    /\ quota = q
    /\ nextId = 1
    /\ linkBytes = [n \in Nodes |-> 0]
    /\ doneBytes = [n \in Nodes |-> 0]
    /\ setBytes = [n \in Nodes |-> 0]
    /\ lastAck = [n \in Nodes |-> <<0, 0>>]
    /\ now = 0
    /\ askedPx = [n \in Nodes |-> [k \in Keys |-> -1]]
    /\ wcFrom = [n \in Nodes |-> <<>>]

\* no bytes have gone through the codec
NoCodec == [pc |-> "idle", vs |-> <<>>, bytes |-> <<>>, st |-> "", data |-> <<>>]

Boot(q) == Wiring(q) /\ codec = NoCodec

Init == Boot(MaxReads)

(***************************************************************************)
(* Helpers of the actions.                                                 *)
(***************************************************************************)
Gone(e) == pc[e] \in {"dead", "closed"}
PeerGone(e) == HasPeer(e) /\ Gone(PeerEnd(e))

\* Connection::write_all on e of frame f, the sockets being `base` otherwise
write_all(e, f, base) ==
    /\ out' = [out EXCEPT ![e] = Append(@, f)]
    /\ sock' = IF HasPeer(e) /\ ~Gone(PeerEnd(e))
               THEN [base EXCEPT ![PeerEnd(e)] = Append(@, f)]
               ELSE base

\* Connection::write_ok and Connection::write_error
write_ok(e, base) == write_all(e, SimpleString("OK"), base)
write_error(e, msg, base) == write_all(e, SimpleError(msg), base)

Head1(e) == buf[e][1]
Command(e) == to_uppercase(Head1(e).a[1])
Executing(e, name) ==
    /\ pc[e] = "exec"
    /\ Head1(e).t = "Array"
    /\ Len(Head1(e).a) >= 1
    /\ Command(e) = name

Unlocked(e) == lock[Node(e)] = {}

\* a task that ends drops its broadcast receiver
DropReceiver(e) ==
    /\ subs' = [subs EXCEPT ![Node(e)] = @ \ {e}]
    /\ bq' = [bq EXCEPT ![e] = <<>>]

(***************************************************************************)
(* The replica's handshake: Role::send_handshake.                          *)
(***************************************************************************)
\* send_ping, send_replconf_listening_port, send_replconf_capa_psync2 and
\* send_psync: the write of step hs[e]
send_handshake_write(e) ==
    /\ e \in LinkOnReplica
    /\ pc[e] = "hs_send"
    /\ write_all(e, HandshakeFrames[hs[e]], sock)
    /\ pc' = [pc EXCEPT ![e] = "hs_read"]
    /\ UNCHANGED <<hs, buf, buflen, master_repl_offset, repl_offset, replicas, db, lock,
                   subs, bq, wc, w, quota, nextId, linkBytes, doneBytes, setBytes, lastAck, now, askedPx, codec, wcFrom>>

\* a handshake that goes on to its next step without reading the reply
send_handshake_noread(e) ==
    /\ e \in LinkOnReplica
    /\ pc[e] = "hs_read"
    /\ IF hs[e] = Len(HandshakeFrames)
       THEN pc' = [pc EXCEPT ![e] = "read"] /\ hs' = hs
       ELSE pc' = [pc EXCEPT ![e] = "hs_send"] /\ hs' = [hs EXCEPT ![e] = @ + 1]
    /\ UNCHANGED <<buf, buflen, sock, out, master_repl_offset, repl_offset, replicas, db, lock,
                   subs, bq, wc, w, quota, nextId, linkBytes, doneBytes, setBytes, lastAck, now, askedPx, codec, wcFrom>>

\* ... and its connection.read(): whatever has arrived is read and dropped
send_handshake_read(e) ==
    /\ e \in LinkOnReplica
    /\ pc[e] = "hs_read"
    /\ sock[e] # <<>>
    /\ \E k \in 1..Min(Len(sock[e]), MaxCoalesce) :
          sock' = [sock EXCEPT ![e] = SubSeq(@, k + 1, Len(@))]
    /\ IF hs[e] = Len(HandshakeFrames)
       THEN pc' = [pc EXCEPT ![e] = "read"] /\ hs' = hs
       ELSE pc' = [pc EXCEPT ![e] = "hs_send"] /\ hs' = [hs EXCEPT ![e] = @ + 1]
    /\ UNCHANGED <<buf, buflen, out, master_repl_offset, repl_offset, replicas, db, lock,
                   subs, bq, wc, w, quota, nextId, linkBytes, doneBytes, setBytes, lastAck, now, askedPx, codec, wcFrom>>

(***************************************************************************)
(* Connection::handle: the read and the parse of one buffer.               *)
(***************************************************************************)
\* parser::parse of a buffer holding the frames fs.  bulk_string::parse
\* returns &input[data_end_pos + 2..] after an RDB payload, which has no
\* CRLF after it: the slice panics when the payload ends the buffer, and
\* otherwise starts two bytes into the next frame, which then fails on its
\* first byte.
parse(fs) ==
    IF \E i \in 1..Len(fs) : fs[i].t = "RDBFile"
    THEN IF fs[Len(fs)].t = "RDBFile" /\ \A i \in 1..(Len(fs) - 1) : fs[i].t # "RDBFile"
         THEN "panic"
         ELSE "err"
    ELSE "ok"

CommandsOf(fs) == SelectSeq(fs, LAMBDA f : f.t = "Array")

link_read(e) ==
    /\ e \in LinkOnMaster \cup LinkOnReplica
    /\ pc[e] = "read"
    /\ \/ /\ sock[e] # <<>>
          /\ \E k \in 1..Min(Len(sock[e]), MaxCoalesce) :
               LET fs == SubSeq(sock[e], 1, k)
                   rest == [sock EXCEPT ![e] = SubSeq(@, k + 1, Len(@))]
               IN  CASE parse(fs) = "panic" ->
                          /\ pc' = [pc EXCEPT ![e] = "dead"]
                          /\ sock' = [sock EXCEPT ![e] = <<>>]
                          /\ UNCHANGED <<buf, buflen, out, linkBytes, now, askedPx, codec, wcFrom>>
                     [] parse(fs) = "err" ->
                          /\ write_all(e, SimpleError("ERR Invalid first byte"), rest)
                          /\ UNCHANGED <<pc, buf, buflen, linkBytes>>
                     [] OTHER ->
                          /\ pc' = [pc EXCEPT ![e] = "exec"]
                          /\ buf' = [buf EXCEPT ![e] = fs]
                          /\ buflen' = [buflen EXCEPT ![e] = BytesOf(fs)]
                          /\ sock' = rest
                          /\ linkBytes' = IF Kind(e) = "Replication"
                                          THEN [linkBytes EXCEPT ![Node(e)] = @ + BytesOf(CommandsOf(fs))]
                                          ELSE linkBytes
                          /\ out' = out
       \/ /\ sock[e] = <<>>
          /\ Gone(PeerEnd(e))
          /\ pc' = [pc EXCEPT ![e] = "closed"]
          /\ UNCHANGED <<buf, buflen, sock, out, linkBytes, now, askedPx, codec, wcFrom>>
    /\ UNCHANGED <<hs, master_repl_offset, repl_offset, replicas, db, lock, subs, bq, wc,
                   w, quota, nextId, doneBytes, setBytes, lastAck, now, askedPx, codec, wcFrom>>

\* a replica listens for clients only after its handshake (Server::run)
Listening(n) == IF is_master(n) THEN TRUE ELSE pc[<<n, Master>>] \notin {"hs_send", "hs_read"}

client_read(e) ==
    /\ e \in ClientEnds
    /\ pc[e] = "read"
    /\ quota > 0
    /\ Listening(Node(e))
    /\ \E req \in Requests(e) :
          /\ buf' = [buf EXCEPT ![e] = req]
          /\ buflen' = [buflen EXCEPT ![e] = BytesOf(req)]
    /\ pc' = [pc EXCEPT ![e] = "exec"]
    /\ quota' = quota - 1
    /\ UNCHANGED <<hs, sock, out, master_repl_offset, repl_offset, replicas, db, lock,
                   subs, bq, wc, w, nextId, linkBytes, doneBytes, setBytes, lastAck, now, askedPx, codec, wcFrom>>

(***************************************************************************)
(* The command handlers.  A handler ends at "acct", the block of           *)
(* Connection::handle that follows commands::handle.                       *)
(***************************************************************************)
\* ping::command
ping_command(e) ==
    /\ Executing(e, "PING")
    /\ IF Kind(e) = "Main"
       THEN /\ write_all(e, SimpleString("PONG"), sock)
            /\ UNCHANGED repl_offset
       ELSE /\ Unlocked(e)
            /\ repl_offset' = [repl_offset EXCEPT ![Node(e)] = @ + as_bytes_len(Array(Head1(e).a))]
            /\ UNCHANGED <<sock, out>>
    /\ pc' = [pc EXCEPT ![e] = "acct"]
    /\ UNCHANGED <<hs, buf, buflen, master_repl_offset, replicas, db, lock, subs, bq, wc,
                   w, quota, nextId, linkBytes, doneBytes, setBytes, lastAck, now, askedPx, codec, wcFrom>>

\* Display for Type::BulkString, which `to_string` uses: the wire form
to_string(s) == IF s = "" THEN "$-1\r\n"
                ELSE "$" \o ToString(Len(s)) \o "\r\n" \o s \o "\r\n"

\* the expiry set::command derives from the arguments after the value:
\* -1 for None, -3 for "ERR invalid time" written whatever the role, -4 for
\* the same error written by a master only.  The option is matched against
\* args[3].to_string(), the wire form of the bulk string.
DefaultTtl == 7
set_expiry(args) ==
    IF Len(args) = 3 THEN -1
    ELSE IF to_uppercase(to_string(args[4])) = "PX"
         THEN IF Len(args) >= 5
              THEN IF parse_u64(args[5]) >= 0 THEN parse_u64(args[5]) ELSE -3
              ELSE -4
         ELSE DefaultTtl

\* the PX option a SET carries after its value: its milliseconds, -1 for none
px_option(args) ==
    IF Len(args) >= 5 /\ to_uppercase(args[4]) = "PX" THEN parse_u64(args[5]) ELSE -1

\* set::command
set_command(e) ==
    /\ Executing(e, "SET")
    /\ Unlocked(e)
    /\ LET args == Head1(e).a
           n == Node(e)
           len == as_bytes_len(Array(args))
           reply(f) == IF is_master(n) THEN write_all(e, f, sock) ELSE UNCHANGED <<sock, out>>
       IN  IF Len(args) < 3
           THEN /\ reply(SimpleError("ERR wrong number of arguments for 'SET' command. Expected 3 but got "
                                       \o ToString(Len(args))))
                /\ UNCHANGED <<db, master_repl_offset, repl_offset, setBytes, askedPx>>
           ELSE LET ms == set_expiry(args) IN
                CASE ms = -3 ->
                       /\ write_all(e, SimpleError("ERR invalid time"), sock)
                       /\ UNCHANGED <<db, master_repl_offset, repl_offset, setBytes, askedPx>>
                  [] ms = -4 ->
                       /\ reply(SimpleError("ERR invalid time"))
                       /\ UNCHANGED <<db, master_repl_offset, repl_offset, setBytes, askedPx>>
                  [] OTHER ->
                       /\ db' = [db EXCEPT ![n][args[2]] = Item(args[3], now, ms)]
                       /\ askedPx' = [askedPx EXCEPT ![n][args[2]] = px_option(args)]
                       /\ reply(SimpleString("OK"))
                       /\ setBytes' = [setBytes EXCEPT ![n] = @ + len]
                       /\ IF Len(args) = 3
                          THEN UNCHANGED <<master_repl_offset, repl_offset>>
                          ELSE IF is_master(n)
                               THEN /\ master_repl_offset' = [master_repl_offset EXCEPT ![n] = @ + len]
                                    /\ UNCHANGED repl_offset
                               ELSE /\ repl_offset' = [repl_offset EXCEPT ![n] = @ + len]
                                    /\ UNCHANGED master_repl_offset
    /\ pc' = [pc EXCEPT ![e] = "set_bcast"]
    /\ UNCHANGED <<hs, buf, buflen, replicas, lock, subs, bq, wc, w, quota, nextId,
                   linkBytes, doneBytes, lastAck, now, codec, wcFrom>>

\* broadcast::Sender::send: the message, numbered, enters every receiver's ring
Publish(n, a) == [e \in Ends |-> IF e \in subs[n]
                                 THEN Append(bq[e], [Array(a) EXCEPT !.id = nextId])
                                 ELSE bq[e]]

\* broadcast, called by commands::handle after set::command
broadcast(e) ==
    /\ pc[e] = "set_bcast"
    /\ Unlocked(e)
    /\ IF subs[Node(e)] = {}
       THEN UNCHANGED <<bq, nextId>>
       ELSE /\ bq' = Publish(Node(e), Head1(e).a)
            /\ nextId' = nextId + 1
    /\ pc' = [pc EXCEPT ![e] = "acct"]
    /\ UNCHANGED <<hs, buf, buflen, sock, out, master_repl_offset, repl_offset, replicas,
                   db, lock, subs, wc, w, quota, linkBytes, doneBytes, setBytes, lastAck, now, askedPx, codec, wcFrom>>

\* the bytes get_ack adds for the GETACK it answered
GetAckBytes == 37
\* the capacity of the wait channel
WaitCap == 64

\* replconf::command with get_ack and ack
replconf_command(e) ==
    /\ Executing(e, "REPLCONF")
    /\ LET args == Tail(Head1(e).a)
           n == Node(e)
       IN  IF Len(args) < 2
           THEN /\ write_error(e, "ERR wrong number of arguments for 'REPLCONF' command. Usage REPLCONF <subcommand> <arg>", sock)
                /\ pc' = [pc EXCEPT ![e] = "acct"]
                /\ UNCHANGED <<repl_offset, w, lastAck>>
           ELSE CASE to_uppercase(args[1]) = "GETACK" ->
                       /\ Unlocked(e)
                       /\ IF is_master(n)
                          THEN /\ write_error(e, "ERR GETACK can only be called on a replica", sock)
                               /\ UNCHANGED <<repl_offset, lastAck>>
                          ELSE /\ write_all(e, Array(<<"REPLCONF", "ACK", ToString(repl_offset[n])>>), sock)
                               /\ repl_offset' = [repl_offset EXCEPT ![n] = @ + GetAckBytes]
                               /\ lastAck' = [lastAck EXCEPT ![n] = <<repl_offset[n], doneBytes[n]>>]
                       /\ pc' = [pc EXCEPT ![e] = "acct"]
                       /\ UNCHANGED w
                  [] to_uppercase(args[1]) = "ACK" ->
                       /\ IF parse_u64(args[2]) < 0
                          THEN /\ write_error(e, "ERR failed to parse offset as u64", sock)
                               /\ pc' = [pc EXCEPT ![e] = "acct"]
                               /\ UNCHANGED w
                          ELSE \* ack goes on to wait_channel.lock()
                               /\ w' = [w EXCEPT ![e].offset = parse_u64(args[2])]
                               /\ pc' = [pc EXCEPT ![e] = "wc_lock"]
                               /\ UNCHANGED <<sock, out>>
                       /\ UNCHANGED <<repl_offset, lastAck>>
                  [] OTHER ->
                       /\ write_ok(e, sock)
                       /\ pc' = [pc EXCEPT ![e] = "acct"]
                       /\ UNCHANGED <<repl_offset, w, lastAck>>
    /\ UNCHANGED <<hs, buf, buflen, master_repl_offset, replicas, db, lock, subs, bq, wc,
                   quota, nextId, linkBytes, doneBytes, setBytes, now, askedPx, codec, wcFrom>>

\* psync::command up to its sleep: the mutex stays held by the task
psync_command(e) ==
    /\ Executing(e, "PSYNC")
    /\ LET args == Tail(Head1(e).a)
           n == Node(e)
       IN  IF Len(args) < 2
           THEN /\ write_error(e, "ERR wrong number of arguments for 'PSYNC' command", sock)
                /\ pc' = [pc EXCEPT ![e] = "subscribe"]
                /\ UNCHANGED <<replicas, lock>>
           ELSE /\ Unlocked(e)
                /\ IF ~is_master(n)
                   THEN /\ write_error(e, "ERR This instance is not a master. PSYNC command is only available on the master instance.", sock)
                        /\ pc' = [pc EXCEPT ![e] = "subscribe"]
                        /\ UNCHANGED <<replicas, lock>>
                   ELSE /\ write_all(e, SimpleString("FULLRESYNC " \o master_replid \o " "
                                                        \o ToString(master_repl_offset[n])), sock)
                        /\ replicas' = [replicas EXCEPT ![n] = Append(@, e)]
                        /\ lock' = [lock EXCEPT ![n] = {e}]
                        /\ pc' = [pc EXCEPT ![e] = "psync_sleep"]
    /\ UNCHANGED <<hs, buf, buflen, master_repl_offset, repl_offset, db, subs, bq, wc, w,
                   quota, nextId, linkBytes, doneBytes, setBytes, lastAck, now, askedPx, codec, wcFrom>>

\* psync::command after its sleep: the RDB frame, then the mutex is released
psync_send_rdb(e) ==
    /\ pc[e] = "psync_sleep"
    /\ write_all(e, RDBFile, sock)
    /\ lock' = [lock EXCEPT ![Node(e)] = {}]
    /\ pc' = [pc EXCEPT ![e] = "subscribe"]
    /\ UNCHANGED <<hs, buf, buflen, master_repl_offset, repl_offset, replicas, db, subs, bq,
                   wc, w, quota, nextId, linkBytes, doneBytes, setBytes, lastAck, now, askedPx, codec, wcFrom>>

(***************************************************************************)
(* receive: the replica writer that a connection becomes after PSYNC.      *)
(***************************************************************************)
\* receive, its first block: subscribe to the broadcast under the mutex
receive_subscribe(e) ==
    /\ pc[e] = "subscribe"
    /\ Unlocked(e)
    /\ subs' = [subs EXCEPT ![Node(e)] = @ \cup {e}]
    /\ pc' = [pc EXCEPT ![e] = "recv"]
    /\ UNCHANGED <<hs, buf, buflen, sock, out, master_repl_offset, repl_offset, replicas,
                   db, lock, bq, wc, w, quota, nextId, linkBytes, doneBytes, setBytes, lastAck, now, askedPx, codec, wcFrom>>

is_wait_cmd(a) == to_uppercase(a[1]) = "REPLCONF" /\ to_uppercase(a[2]) = "GETACK"

\* broadcast::channel(16): the ring keeps 16 messages.  A receiver that has
\* more than that many unreceived messages has lost the oldest of them, and
\* its next recv() returns RecvError::Lagged.
RingCap == 16
Lagged(e) == Len(bq[e]) > RingCap

\* a receiver that takes the newest message of its ring first
NextMsg_newest(q) == Len(q)

\* which message of its ring a receiver takes next: broadcast::Receiver::recv
\* returns the oldest
NextMsg(q) == 1

\* receive, one turn of its loop up to the forwarding write
receive_forward(e) ==
    /\ pc[e] = "recv"
    /\ bq[e] # <<>>
    /\ ~Lagged(e)
    /\ LET i == NextMsg(bq[e])
           msg == bq[e][i]
           left == [j \in 1..(Len(bq[e]) - 1) |-> IF j < i THEN bq[e][j] ELSE bq[e][j + 1]]
       IN  IF Len(msg.a) < 2
           THEN /\ bq' = [bq EXCEPT ![e] = left]
                /\ UNCHANGED <<pc, sock, out, subs, w>>
           ELSE \* try_read until WouldBlock empties the socket before a GETACK
                LET base == IF is_wait_cmd(msg.a) THEN [sock EXCEPT ![e] = <<>>] ELSE sock
                IN  \/ /\ write_all(e, msg, base)
                       /\ bq' = [bq EXCEPT ![e] = left]
                       /\ subs' = subs
                       /\ w' = IF is_wait_cmd(msg.a) /\ Len(msg.a) >= 3
                               THEN [w EXCEPT ![e].getack = msg.id] ELSE w
                       /\ pc' = [pc EXCEPT ![e] = IF is_wait_cmd(msg.a) /\ Len(msg.a) >= 3
                                                  THEN "ackwait" ELSE "recv"]
                    \/ \* the write to a peer that is gone may fail: the task ends
                       /\ PeerGone(e)
                       /\ pc' = [pc EXCEPT ![e] = "dead"]
                       /\ DropReceiver(e)
                       /\ sock' = base
                       /\ out' = out
                       /\ w' = w
    /\ UNCHANGED <<hs, buf, buflen, master_repl_offset, repl_offset, replicas, db, lock,
                   wc, quota, nextId, linkBytes, doneBytes, setBytes, lastAck, now, askedPx, codec, wcFrom>>

\* receive, the Err(e) arm of its loop when recv() reports a lag: the loop
\* breaks, receive returns and the receiver is dropped
receive_lagged(e) ==
    /\ pc[e] = "recv"
    /\ Lagged(e)
    /\ pc' = [pc EXCEPT ![e] = "acct"]
    /\ DropReceiver(e)
    /\ UNCHANGED <<hs, buf, buflen, sock, out, master_repl_offset, repl_offset, replicas, db,
                   lock, wc, w, quota, nextId, linkBytes, doneBytes, setBytes, lastAck, now, askedPx, codec, wcFrom>>

\* history: the WAITs that were waiting when a replica's offset reached the wait channel
Credit(e, offset) ==
    [x \in Ends |-> IF Node(x) = Node(e) /\ pc[x] \in {"wait_getack", "wait_sleep"}
                       /\ offset >= w[x].target
                    THEN [w[x] EXCEPT !.acked = @ \cup {e}]
                    ELSE w[x]]

\* receive, after a forwarded GETACK: the socket became readable in time;
\* a well-formed answer goes on to wait_channel.lock()
receive_ack(e) ==
    /\ pc[e] = "ackwait"
    /\ sock[e] # <<>>
    /\ LET response == sock[e]
           offset == parse_u64(response[1].a[3])
       IN  IF response[1].t # "Array" \/ Len(response[1].a) < 3
           THEN /\ pc' = [pc EXCEPT ![e] = "recv"]
                /\ UNCHANGED <<w, subs, bq>>
           ELSE IF offset < 0
                THEN /\ pc' = [pc EXCEPT ![e] = "dead"]
                     /\ DropReceiver(e)
                     /\ UNCHANGED w
                ELSE /\ w' = [w EXCEPT ![e].offset = offset]
                     /\ pc' = [pc EXCEPT ![e] = "wc_lock"]
                     /\ UNCHANGED <<subs, bq>>
    /\ sock' = [sock EXCEPT ![e] = <<>>]
    /\ UNCHANGED <<hs, buf, buflen, out, master_repl_offset, repl_offset, replicas, db, lock,
                   wc, quota, nextId, linkBytes, doneBytes, setBytes, lastAck, now, askedPx, codec, wcFrom>>

\* the wait-channel mutex is held by the task that is sending on the channel
WcLocked(n) == \E x \in Ends : Node(x) = n /\ pc[x] = "wc_send"

\* wait_channel.lock().await of ack and of receive
wait_channel_lock(e) ==
    /\ pc[e] = "wc_lock"
    /\ ~WcLocked(Node(e))
    /\ pc' = [pc EXCEPT ![e] = "wc_send"]
    /\ UNCHANGED <<hs, buf, buflen, sock, out, master_repl_offset, repl_offset, replicas, db,
                   lock, subs, bq, wc, w, quota, nextId, linkBytes, doneBytes, setBytes, lastAck, now, askedPx, codec, wcFrom>>

\* wc.0.send(offset).await, which completes once the channel has room; the
\* guard is then dropped: ack writes +OK and returns, receive loops
wait_channel_send(e) ==
    /\ pc[e] = "wc_send"
    /\ Len(wc[Node(e)]) < WaitCap
    /\ wc' = [wc EXCEPT ![Node(e)] = Append(@, w[e].offset)]
    /\ wcFrom' = [wcFrom EXCEPT ![Node(e)] = Append(@, [by |-> e, id |-> w[e].getack])]
    /\ IF Command(e) = "REPLCONF"
       THEN /\ write_ok(e, sock)
            /\ w' = w
            /\ pc' = [pc EXCEPT ![e] = "acct"]
       ELSE /\ w' = [Credit(e, w[e].offset) EXCEPT ![e] = NoWait]
            /\ pc' = [pc EXCEPT ![e] = "recv"]
            /\ UNCHANGED <<sock, out>>
    /\ UNCHANGED <<hs, buf, buflen, master_repl_offset, repl_offset, replicas, db, lock,
                   subs, bq, quota, nextId, linkBytes, doneBytes, setBytes, lastAck, now, askedPx, codec>>

\* ... the 200 ms passed with nothing to read
receive_timeout(e) ==
    /\ pc[e] = "ackwait"
    /\ sock[e] = <<>>
    /\ ~PeerGone(e)
    /\ pc' = [pc EXCEPT ![e] = "recv"]
    /\ UNCHANGED <<hs, buf, buflen, sock, out, master_repl_offset, repl_offset, replicas, db,
                   lock, subs, bq, wc, w, quota, nextId, linkBytes, doneBytes, setBytes, lastAck, now, askedPx, codec, wcFrom>>

\* ... try_read returned 0: the loop breaks and receive returns
receive_closed(e) ==
    /\ pc[e] = "ackwait"
    /\ sock[e] = <<>>
    /\ PeerGone(e)
    /\ pc' = [pc EXCEPT ![e] = "acct"]
    /\ DropReceiver(e)
    /\ UNCHANGED <<hs, buf, buflen, sock, out, master_repl_offset, repl_offset, replicas, db,
                   lock, wc, w, quota, nextId, linkBytes, doneBytes, setBytes, lastAck, now, askedPx, codec, wcFrom>>

(***************************************************************************)
(* wait::command.  Time is counted in sleeps of the loop: budget is the    *)
(* number of 50 ms sleeps that fit before the deadline.                    *)
(***************************************************************************)
SleepMs == 50

Range(q) == {q[i] : i \in 1..Len(q)}

\* a WAIT that enters its loop whatever the offset
wait_command_loop(e) ==
    /\ Executing(e, "WAIT")
    /\ Unlocked(e)
    /\ LET args == Tail(Head1(e).a)
           n == Node(e)
           addresses == Len(replicas[n])
           numreplicas == parse_u64(args[1])
           timeout == parse_u64(args[2])
           desired_replicas == Min(numreplicas, addresses)
           budget == (timeout + SleepMs - 1) \div SleepMs
       IN  IF ~is_master(n)
           THEN /\ write_error(e, "ERR This instance is not a master. WAIT command is only available on the master instance.", sock)
                /\ pc' = [pc EXCEPT ![e] = "acct"]
                /\ w' = w
           ELSE IF Len(args) < 2
           THEN /\ write_error(e, "ERR wrong number of arguments for 'wait' command", sock)
                /\ pc' = [pc EXCEPT ![e] = "acct"]
                /\ w' = w
           ELSE IF numreplicas < 0 \/ timeout < 0
           THEN /\ pc' = [pc EXCEPT ![e] = "dead"]
                /\ UNCHANGED <<sock, out, w>>
           ELSE IF budget = 0 \/ 0 >= desired_replicas
           THEN /\ write_all(e, Integer(0), sock)
                /\ pc' = [pc EXCEPT ![e] = "acct"]
                /\ w' = w
           ELSE /\ w' = [w EXCEPT ![e] = [target |-> master_repl_offset[n], n |-> addresses,
                                          desired |-> desired_replicas, synced |-> 0,
                                          budget |-> budget, regs |-> Range(replicas[n]),
                                          acked |-> {}, offset |-> 0, start |-> nextId,
                                          getack |-> 0]]
                /\ pc' = [pc EXCEPT ![e] = "wait_getack"]
                /\ UNCHANGED <<sock, out>>
    /\ UNCHANGED <<hs, buf, buflen, master_repl_offset, repl_offset, replicas, db, lock,
                   subs, bq, wc, quota, nextId, linkBytes, doneBytes, setBytes, lastAck, now, askedPx, codec, wcFrom>>

\* wait::command up to the first suspension of its loop
wait_command(e) ==
    /\ Executing(e, "WAIT")
    /\ Unlocked(e)
    /\ LET args == Tail(Head1(e).a)
           n == Node(e)
           addresses == Len(replicas[n])
           numreplicas == parse_u64(args[1])
           timeout == parse_u64(args[2])
           desired_replicas == Min(numreplicas, addresses)
           budget == (timeout + SleepMs - 1) \div SleepMs
       IN  IF ~is_master(n)
           THEN /\ write_error(e, "ERR This instance is not a master. WAIT command is only available on the master instance.", sock)
                /\ pc' = [pc EXCEPT ![e] = "acct"]
                /\ w' = w
           ELSE IF Len(args) < 2
           THEN /\ write_error(e, "ERR wrong number of arguments for 'wait' command", sock)
                /\ pc' = [pc EXCEPT ![e] = "acct"]
                /\ w' = w
           ELSE IF numreplicas < 0 \/ timeout < 0
           THEN /\ pc' = [pc EXCEPT ![e] = "dead"]
                /\ UNCHANGED <<sock, out, w>>
           ELSE IF master_repl_offset[n] = 0
           THEN /\ write_all(e, Integer(addresses), sock)
                /\ pc' = [pc EXCEPT ![e] = "acct"]
                /\ w' = w
           ELSE IF budget = 0 \/ 0 >= desired_replicas
           THEN /\ write_all(e, Integer(0), sock)
                /\ pc' = [pc EXCEPT ![e] = "acct"]
                /\ w' = w
           ELSE /\ w' = [w EXCEPT ![e] = [target |-> master_repl_offset[n], n |-> addresses,
                                          desired |-> desired_replicas, synced |-> 0,
                                          budget |-> budget, regs |-> Range(replicas[n]),
                                          acked |-> {}, offset |-> 0, start |-> nextId,
                                          getack |-> 0]]
                /\ pc' = [pc EXCEPT ![e] = "wait_getack"]
                /\ UNCHANGED <<sock, out>>
    /\ UNCHANGED <<hs, buf, buflen, master_repl_offset, repl_offset, replicas, db, lock,
                   subs, bq, wc, quota, nextId, linkBytes, doneBytes, setBytes, lastAck, now, askedPx, codec, wcFrom>>

\* the first iteration: the GETACK is sent on the broadcast channel; the send
\* fails, and `?` ends the task, when the channel has no receiver
wait_getack(e) ==
    /\ pc[e] = "wait_getack"
    /\ Unlocked(e)
    /\ IF subs[Node(e)] = {}
       THEN /\ pc' = [pc EXCEPT ![e] = "dead"]
            /\ UNCHANGED <<bq, nextId, w>>
       ELSE /\ bq' = Publish(Node(e), GetAckCmd)
            /\ nextId' = nextId + 1
            /\ w' = [w EXCEPT ![e].getack = nextId]
            /\ pc' = [pc EXCEPT ![e] = "wait_sleep"]
    /\ UNCHANGED <<hs, buf, buflen, sock, out, master_repl_offset, repl_offset, replicas,
                   db, lock, subs, wc, quota, linkBytes, doneBytes, setBytes, lastAck, now, askedPx, codec, wcFrom>>

\* the try_recv loop over the wait channel
RECURSIVE Drain(_, _, _, _)
Drain(q, synced, desired, target) ==
    IF q = <<>> THEN [q |-> q, synced |-> synced]
    ELSE LET s2 == IF Head(q) >= target THEN synced + 1 ELSE synced
         IN  IF s2 >= desired THEN [q |-> Tail(q), synced |-> s2]
             ELSE Drain(Tail(q), s2, desired, target)

\* the sleep ends after d sleeps' worth of time; the wait channel is drained
\* and the loop conditions decide between the reply and another sleep
wait_wake(e) ==
    /\ pc[e] = "wait_sleep"
    /\ ~WcLocked(Node(e))
    /\ \E d \in 1..w[e].budget :
         LET r == Drain(wc[Node(e)], w[e].synced, w[e].desired, w[e].target)
             b == w[e].budget - d
         IN  /\ wc' = [wc EXCEPT ![Node(e)] = r.q]
             /\ wcFrom' = [wcFrom EXCEPT ![Node(e)] = SubSeq(@, Len(@) - Len(r.q) + 1, Len(@))]
             /\ w' = [w EXCEPT ![e].synced = r.synced, ![e].budget = b]
             /\ IF b = 0 \/ r.synced >= w[e].desired
                THEN /\ write_all(e, Integer(r.synced), sock)
                     /\ pc' = [pc EXCEPT ![e] = "acct"]
                ELSE UNCHANGED <<sock, out, pc>>
    /\ UNCHANGED <<hs, buf, buflen, master_repl_offset, repl_offset, replicas, db, lock,
                   subs, bq, quota, nextId, linkBytes, doneBytes, setBytes, lastAck, now, askedPx, codec>>

(***************************************************************************)
(* The keyspace: Database::get and Database::keys, GET and KEYS.           *)
(***************************************************************************)
\* Database::get: the item of key, NoItem for None
get(n, key) ==
    IF key \notin Keys THEN NoItem
    ELSE LET item == db[n][key]
         IN  IF item = NoItem THEN NoItem
             ELSE IF item.expires_at >= 0 /\ now - item.created_at >= item.expires_at
                  THEN NoItem
                  ELSE item

\* Database::keys
keys(n) == {k \in Keys : db[n][k] # NoItem}

\* the orders in which the iterator of a HashMap may yield the keys S
Orders(S) ==
    {q \in [1..Cardinality(S) -> S] : \A i, j \in 1..Cardinality(S) : q[i] = q[j] => i = j}

\* get::command
get_command(e) ==
    /\ Executing(e, "GET")
    /\ LET args == Tail(Head1(e).a)
       IN  IF Len(args) < 1
           THEN write_all(e, SimpleError("ERR at least one argument is required for 'GET' command"), sock)
           ELSE /\ Unlocked(e)
                /\ LET response == get(Node(e), args[1])
                   IN  write_all(e, BulkString(IF response = NoItem THEN "" ELSE response.value), sock)
    /\ pc' = [pc EXCEPT ![e] = "acct"]
    /\ UNCHANGED <<hs, buf, buflen, master_repl_offset, repl_offset, replicas, db, lock, subs,
                   bq, wc, w, quota, nextId, linkBytes, doneBytes, setBytes, lastAck, now, askedPx, codec, wcFrom>>

\* keys::command
keys_command(e) ==
    /\ Executing(e, "KEYS")
    /\ IF Len(Head1(e).a) # 2
       THEN write_error(e, "ERR wrong number of arguments for 'KEYS' command", sock)
       ELSE /\ Unlocked(e)
            /\ \E q \in Orders(keys(Node(e))) : write_all(e, Array(q), sock)
    /\ pc' = [pc EXCEPT ![e] = "acct"]
    /\ UNCHANGED <<hs, buf, buflen, master_repl_offset, repl_offset, replicas, db, lock, subs,
                   bq, wc, w, quota, nextId, linkBytes, doneBytes, setBytes, lastAck, now, askedPx, codec, wcFrom>>

(***************************************************************************)
(* Connection::handle after commands::handle returned: the offsets.        *)
(***************************************************************************)
acct(e) ==
    /\ pc[e] = "acct"
    /\ Unlocked(e)
    /\ LET command == Head1(e).a
           n == Node(e)
           len == buflen[e]
           cmd == to_uppercase(command[1])
           counted == \/ cmd = "SET"
                      \/ cmd = "PING" /\ ~is_master(n)
                      \/ cmd = "REPLCONF" /\ to_uppercase(command[2]) = "GETACK" /\ ~is_master(n)
       IN  IF cmd = "REPLCONF" /\ Len(command) < 2
           THEN \* &command[1] is out of bounds
                /\ pc' = [pc EXCEPT ![e] = "dead"]
                /\ UNCHANGED <<buf, master_repl_offset, repl_offset, doneBytes, now, askedPx, codec, wcFrom>>
           ELSE /\ IF counted /\ is_master(n)
                   THEN master_repl_offset' = [master_repl_offset EXCEPT ![n] = @ + len]
                   ELSE UNCHANGED master_repl_offset
                /\ IF counted /\ ~is_master(n)
                   THEN repl_offset' = [repl_offset EXCEPT ![n] = @ + len]
                   ELSE UNCHANGED repl_offset
                /\ doneBytes' = IF Kind(e) = "Replication"
                                THEN [doneBytes EXCEPT ![n] = @ + as_bytes_len(Head1(e))]
                                ELSE doneBytes
                /\ buf' = [buf EXCEPT ![e] = Tail(@)]
                /\ pc' = [pc EXCEPT ![e] = IF Tail(buf[e]) = <<>> THEN "read" ELSE "exec"]
    /\ w' = [w EXCEPT ![e] = NoWait]
    /\ UNCHANGED <<hs, buflen, sock, out, replicas, db, lock, subs, bq, wc, quota, nextId,
                   linkBytes, setBytes, lastAck, now, askedPx, codec, wcFrom>>

(***************************************************************************)
(* The specification.                                                      *)
(***************************************************************************)
Step(e) ==
    \/ send_handshake_write(e)
    \/ send_handshake_read(e)
    \/ link_read(e)
    \/ ping_command(e)
    \/ set_command(e)
    \/ broadcast(e)
    \/ replconf_command(e)
    \/ psync_command(e)
    \/ psync_send_rdb(e)
    \/ receive_subscribe(e)
    \/ receive_forward(e)
    \/ receive_ack(e)
    \/ wait_channel_lock(e)
    \/ wait_channel_send(e)
    \/ receive_timeout(e)
    \/ receive_closed(e)
    \/ wait_command(e)
    \/ wait_getack(e)
    \/ wait_wake(e)
    \/ acct(e)

Next == \E e \in Ends : Step(e) \/ client_read(e)

Spec == Init /\ [][Next]_vars

(***************************************************************************)
(* The same server with clients that fill the wait channel: c2 sends       *)
(* REPLCONF ACK 0 as many times as the channel has slots, then c1 writes   *)
(* and waits.                                                              *)
(***************************************************************************)
AckRequests(e) ==
    CASE e = <<Master, "c2">> /\ quota > 2 -> { <<Array(<<"REPLCONF", "ACK", "0">>)>> }
      [] e = <<Master, "c1">> /\ quota = 2 -> { <<Array(SetCmd)>> }
      [] e = <<Master, "c1">> /\ quota = 1 -> { <<Array(<<"WAIT", "1", "100">>)>> }
      [] OTHER -> {}

ack_client_read(e) ==
    /\ e \in ClientEnds
    /\ pc[e] = "read"
    /\ quota > 0
    /\ Listening(Node(e))
    /\ \E req \in AckRequests(e) :
          /\ buf' = [buf EXCEPT ![e] = req]
          /\ buflen' = [buflen EXCEPT ![e] = BytesOf(req)]
    /\ pc' = [pc EXCEPT ![e] = "exec"]
    /\ quota' = quota - 1
    /\ UNCHANGED <<hs, sock, out, master_repl_offset, repl_offset, replicas, db, lock,
                   subs, bq, wc, w, nextId, linkBytes, doneBytes, setBytes, lastAck, now, askedPx, codec, wcFrom>>

AckInit == Boot(WaitCap + 2)

AckNext == \E e \in Ends : Step(e) \/ ack_client_read(e)

AckSpec == AckInit /\ [][AckNext]_vars

(***************************************************************************)
(* The keyspace of a master under one client, with time passing.           *)
(***************************************************************************)
MaxClock == 110

\* how much time may pass between two steps
Ticks == {5, 50}

tick ==
    /\ \E d \in Ticks :
          /\ now + d <= MaxClock
          /\ now' = now + d
    /\ UNCHANGED <<pc, hs, buf, buflen, sock, out, master_repl_offset, repl_offset, replicas,
                   db, lock, subs, bq, wc, w, quota, nextId, linkBytes, doneBytes, setBytes,
                   lastAck, askedPx, codec, wcFrom>>

SetNxCmd == <<"SET", "k", "v", "NX">>
GetCmd == <<"GET", "k">>
KeysCmd == <<"KEYS", "*">>

DbRequests ==
    { <<Array(SetCmd)>>, <<Array(SetPxCmd)>>, <<Array(SetNxCmd)>>,
      <<Array(GetCmd)>>, <<Array(KeysCmd)>> }

db_client_read(e) ==
    /\ e = <<Master, "c1">>
    /\ pc[e] = "read"
    /\ quota > 0
    /\ \E req \in DbRequests :
          /\ buf' = [buf EXCEPT ![e] = req]
          /\ buflen' = [buflen EXCEPT ![e] = BytesOf(req)]
    /\ pc' = [pc EXCEPT ![e] = "exec"]
    /\ quota' = quota - 1
    /\ UNCHANGED <<hs, sock, out, master_repl_offset, repl_offset, replicas, db, lock,
                   subs, bq, wc, w, nextId, linkBytes, doneBytes, setBytes, lastAck, now, askedPx, codec, wcFrom>>

DbStep(e) ==
    \/ db_client_read(e)
    \/ set_command(e)
    \/ broadcast(e)
    \/ get_command(e)
    \/ keys_command(e)
    \/ acct(e)

DbNext == tick \/ \E e \in ClientEnds : DbStep(e)

DbSpec == Init /\ [][DbNext]_vars

(***************************************************************************)
(* Streams: XADD and XRANGE, and the commands that have no arm in          *)
(* commands::handle.                                                       *)
(***************************************************************************)
\* the largest number in a part of the stream ids the clients send
MaxPart == 2

Parts == {"*"} \cup {ToString(i) : i \in 0..MaxPart}

\* str::split_once("-") of an id: <<before, after>>, <<>> for None
split_once(id) ==
    IF \E a \in Parts, b \in Parts : a \o "-" \o b = id
    THEN CHOOSE ab \in Parts \X Parts : ab[1] \o "-" \o ab[2] = id
    ELSE <<>>

\* str::parse::<u64>().unwrap_or(0)
parse_or_0(t) == IF parse_u64(t) >= 0 THEN parse_u64(t) ELSE 0

\* xadd.rs simple_parse_id
simple_parse_id(id) ==
    IF split_once(id) = <<>> THEN <<0, 0>>
    ELSE <<parse_or_0(split_once(id)[1]), parse_or_0(split_once(id)[2])>>

\* StreamID::from_id
from_id(id) ==
    IF split_once(id) = <<>> THEN <<0, 0>>
    ELSE <<parse_or_0(split_once(id)[1]), parse_or_0(split_once(id)[2])>>

\* xadd.rs parse_milliseconds
parse_milliseconds(milliseconds) == parse_or_0(milliseconds)

\* xadd.rs parse_sequence; last_entry is <<>> for None, <<entry>> for Some
parse_sequence(sequence, milliseconds, last_entry) ==
    IF sequence = "*"
    THEN IF last_entry # <<>>
         THEN IF milliseconds = simple_parse_id(last_entry[1].id)[1]
              THEN simple_parse_id(last_entry[1].id)[2] + 1
              ELSE 0
         ELSE 1
    ELSE parse_or_0(sequence)

\* xadd.rs parse_id
parse_id(id, last_entry) ==
    IF split_once(id) = <<>> THEN <<0, 0>>
    ELSE LET milliseconds == parse_milliseconds(split_once(id)[1])
         IN  <<milliseconds, parse_sequence(split_once(id)[2], milliseconds, last_entry)>>

\* format!("{}-{}", milliseconds, sequence)
format_id(id) == ToString(id[1]) \o "-" \o ToString(id[2])

\* the stream a key holds, empty when it holds none
stream_of(n, name) ==
    IF get(n, name) = NoItem THEN <<>> ELSE get(n, name).stream

\* xadd::command
xadd_command(e) ==
    /\ Executing(e, "XADD")
    /\ LET args == Head1(e).a
           n == Node(e)
       IN  IF Len(args) < 3 \/ Len(args) % 2 = 0
           THEN /\ write_error(e, "ERR wrong number of arguments for 'XADD' command", sock)
                /\ db' = db
           ELSE /\ Unlocked(e)
                /\ LET name == args[2]
                       id == args[3]
                       fields == SubSeq(args, 4, Len(args))
                       stream == stream_of(n, name)
                       last_entry == IF stream = <<>> THEN <<>> ELSE <<stream[Len(stream)]>>
                       new == parse_id(id, last_entry)
                       last == simple_parse_id(last_entry[1].id)
                   IN  IF new = <<0, 0>>
                       THEN /\ write_error(e, "ERR The ID specified in XADD must be greater than 0-0", sock)
                            /\ db' = db
                       ELSE IF last_entry # <<>>
                               /\ (new[1] < last[1] \/ (new[1] = last[1] /\ new[2] <= last[2]))
                       THEN /\ write_error(e, "ERR The ID specified in XADD is equal or smaller than the target stream top item", sock)
                            /\ db' = db
                       ELSE /\ db' = [db EXCEPT ![n][name] =
                                         Stream(Append(stream, [id |-> id, fields |-> fields]), now)]
                            /\ write_all(e, BulkString(format_id(new)), sock)
    /\ pc' = [pc EXCEPT ![e] = "acct"]
    /\ UNCHANGED <<hs, buf, buflen, master_repl_offset, repl_offset, replicas, lock, subs,
                   bq, wc, w, quota, nextId, linkBytes, doneBytes, setBytes, lastAck, now, askedPx, codec, wcFrom>>

\* the StreamID of a stored entry
entry_id(entry) == from_id(entry.id)

\* the filter of xrange::command
in_range(id, start, end) ==
    /\ id[1] >= start[1] /\ id[2] >= start[2]
    /\ id[1] <= end[1] /\ id[2] <= end[2]

\* the Array xrange::command builds of an entry
entry_reply(entry) ==
    [t |-> "Array", a |-> <<BulkString(format_id(entry_id(entry))), Array(entry.fields)>>, id |-> 0]

RECURSIVE entries_reply(_)
entries_reply(entries) ==
    IF entries = <<>> THEN <<>>
    ELSE <<entry_reply(Head(entries))>> \o entries_reply(Tail(entries))

\* xrange::command
xrange_command(e) ==
    /\ Executing(e, "XRANGE")
    /\ LET args == Head1(e).a
           n == Node(e)
       IN  IF Len(args) < 3 \/ Len(args) > 5
           THEN write_error(e, "ERR wrong number of arguments for 'XRANGE' command", sock)
           ELSE IF Len(args) < 4
           THEN write_error(e, "ERR invalid end", sock)
           ELSE /\ Unlocked(e)
                /\ LET start == from_id(args[3])
                       end == from_id(args[4])
                       stream == stream_of(n, args[2])
                   IN  IF stream = <<>>
                       THEN write_error(e, "ERR no such stream", sock)
                       ELSE write_all(e, [t |-> "Array", id |-> 0,
                                          a |-> entries_reply(SelectSeq(stream,
                                                   LAMBDA entry : in_range(entry_id(entry), start, end)))],
                                      sock)
    /\ pc' = [pc EXCEPT ![e] = "acct"]
    /\ UNCHANGED <<hs, buf, buflen, master_repl_offset, repl_offset, replicas, db, lock, subs,
                   bq, wc, w, quota, nextId, linkBytes, doneBytes, setBytes, lastAck, now, askedPx, codec, wcFrom>>

\* the commands that have an arm in the match of commands::handle
Dispatched ==
    {"PING", "ECHO", "SET", "GET", "INFO", "REPLCONF", "PSYNC", "WAIT", "CONFIG", "KEYS",
     "TYPE", "XADD", "XRANGE"}

\* format!("{:?}", cmd) of the elements of a command
RECURSIVE debug_fmt(_)
debug_fmt(a) ==
    IF a = <<>> THEN ""
    ELSE "BulkString(\"" \o Head(a) \o "\")" \o (IF Len(a) > 1 THEN ", " ELSE "") \o debug_fmt(Tail(a))

\* commands::handle, the `_ =>` arm of its match
unknown_command(e) ==
    /\ pc[e] = "exec"
    /\ Head1(e).t = "Array"
    /\ Len(Head1(e).a) >= 1
    /\ Command(e) \notin Dispatched
    /\ write_all(e, SimpleError("ERR unknown command: [" \o debug_fmt(Head1(e).a) \o "]\r\n"), sock)
    /\ pc' = [pc EXCEPT ![e] = "acct"]
    /\ UNCHANGED <<hs, buf, buflen, master_repl_offset, repl_offset, replicas, db, lock, subs,
                   bq, wc, w, quota, nextId, linkBytes, doneBytes, setBytes, lastAck, now, askedPx, codec, wcFrom>>

\* what the client of a stream sends
XaddIds == {"0-0", "1-1", "1-*", "2-0"}
XrangeBounds == {<<"1-1", "2-1">>, <<"0-0", "2-1">>}
XreadCmd == <<"XREAD", "STREAMS", "s", "1-1">>
\* XADDs without a complete field/value pair
XaddShort == {<<"XADD", "s", "1-1">>, <<"XADD", "s", "1-1", "f">>}

StreamRequests ==
    {<<Array(<<"XADD", "s", id, "f", "v">>)>> : id \in XaddIds}
    \cup {<<Array(<<"XRANGE", "s", b[1], b[2]>>)>> : b \in XrangeBounds}
    \cup {<<Array(XreadCmd)>>}
    \cup {<<Array(a)>> : a \in XaddShort}

stream_client_read(e) ==
    /\ e = <<Master, "c1">>
    /\ pc[e] = "read"
    /\ quota > 0
    /\ \E req \in StreamRequests :
          /\ buf' = [buf EXCEPT ![e] = req]
          /\ buflen' = [buflen EXCEPT ![e] = BytesOf(req)]
    /\ pc' = [pc EXCEPT ![e] = "exec"]
    /\ quota' = quota - 1
    /\ UNCHANGED <<hs, sock, out, master_repl_offset, repl_offset, replicas, db, lock,
                   subs, bq, wc, w, nextId, linkBytes, doneBytes, setBytes, lastAck, now, askedPx, codec, wcFrom>>

StreamStep(e) ==
    \/ stream_client_read(e)
    \/ xadd_command(e)
    \/ xrange_command(e)
    \/ unknown_command(e)
    \/ acct(e)

StreamNext == \E e \in ClientEnds : StreamStep(e)

StreamSpec == Init /\ [][StreamNext]_vars

(***************************************************************************)
(* A master under one client that sends bad commands among good ones.      *)
(***************************************************************************)
\* REPLCONF with no subcommand, WAIT with a non-numeric argument, WAIT with
\* one argument, a command that has no handler
BadCmds == {<<"REPLCONF">>, <<"WAIT", "x", "100">>, <<"WAIT", "1">>, <<"FOO">>}

BadRequests == {<<Array(a)>> : a \in BadCmds \cup {GetCmd}}

bad_client_read(e) ==
    /\ e = <<Master, "c1">>
    /\ pc[e] = "read"
    /\ quota > 0
    /\ \E req \in BadRequests :
          /\ buf' = [buf EXCEPT ![e] = req]
          /\ buflen' = [buflen EXCEPT ![e] = BytesOf(req)]
    /\ pc' = [pc EXCEPT ![e] = "exec"]
    /\ quota' = quota - 1
    /\ UNCHANGED <<hs, sock, out, master_repl_offset, repl_offset, replicas, db, lock,
                   subs, bq, wc, w, nextId, linkBytes, doneBytes, setBytes, lastAck, now, askedPx, codec, wcFrom>>

BadStep(e) ==
    \/ bad_client_read(e)
    \/ replconf_command(e)
    \/ wait_command(e)
    \/ get_command(e)
    \/ unknown_command(e)
    \/ acct(e)

BadNext == \E e \in ClientEnds : BadStep(e)

BadSpec == Init /\ [][BadNext]_vars

(***************************************************************************)
(* The codec at the level of bytes: a byte string is a sequence of         *)
(* one-character strings.  The values drawn have texts of the letter a and *)
(* aggregates of scalar items; hash containers are drawn one level deep.   *)
(***************************************************************************)
MaxText == 2        \* the longest text of a value
MaxItems == 2       \* the most items of an Array or a Set

Digit == <<"0", "1", "2", "3", "4", "5", "6", "7", "8", "9">>
CRLF == <<"\r", "\n">>
Magic == <<"R", "E", "D", "I", "S", "0", "0", "1", "1">>

\* usize::to_string
RECURSIVE usize_to_string(_)
usize_to_string(n) ==
    IF n < 10 THEN <<Digit[n + 1]>>
    ELSE usize_to_string(n \div 10) \o <<Digit[(n % 10) + 1]>>

\* i64::to_string, and f64::to_string of a whole number
i64_to_string(n) == IF n < 0 THEN <<"-">> \o usize_to_string(-n) ELSE usize_to_string(n)

IsDigits(cs) == Len(cs) > 0 /\ \A i \in 1..Len(cs) : cs[i] \in Range(Digit)

RECURSIVE digits_value(_)
digits_value(cs) ==
    IF cs = <<>> THEN 0
    ELSE 10 * digits_value(SubSeq(cs, 1, Len(cs) - 1))
         + (CHOOSE d \in 0..9 : Digit[d + 1] = cs[Len(cs)])

\* str::parse::<i64>
parse_i64(cs) ==
    IF IsDigits(cs) THEN [ok |-> TRUE, n |-> digits_value(cs)]
    ELSE IF Len(cs) > 1 /\ cs[1] \in {"-", "+"} /\ IsDigits(Tail(cs))
         THEN [ok |-> TRUE, n |-> IF cs[1] = "-" THEN 0 - digits_value(Tail(cs))
                                                 ELSE digits_value(Tail(cs))]
         ELSE [ok |-> FALSE, n |-> 0]

\* resp::Type: s the text, e the encoding of a VerbatimString, n the number (1 for true),
\* arr the items of an Array, set those of a Set, map the pairs of a Map
TypeVal(t, s, e, n, arr, set, map) ==
    [t |-> t, s |-> s, e |-> e, n |-> n, arr |-> arr, set |-> set, map |-> map]
TSimpleString(s) == TypeVal("SimpleString", s, <<>>, 0, <<>>, {}, {})
TSimpleError(s) == TypeVal("SimpleError", s, <<>>, 0, <<>>, {}, {})
TInteger(n) == TypeVal("Integer", <<>>, <<>>, n, <<>>, {}, {})
TBulkString(s) == TypeVal("BulkString", s, <<>>, 0, <<>>, {}, {})
TArray(a) == TypeVal("Array", <<>>, <<>>, 0, a, {}, {})
TNull == TypeVal("Null", <<>>, <<>>, 0, <<>>, {}, {})
TBoolean(b) == TypeVal("Boolean", <<>>, <<>>, IF b THEN 1 ELSE 0, <<>>, {}, {})
TDouble(n) == TypeVal("Double", <<>>, <<>>, n, <<>>, {}, {})
TBigNumber(n) == TypeVal("BigNumber", <<>>, <<>>, n, <<>>, {}, {})
TBulkError(s) == TypeVal("BulkError", s, <<>>, 0, <<>>, {}, {})
TVerbatimString(e, s) == TypeVal("VerbatimString", s, e, 0, <<>>, {}, {})
TMap(m) == TypeVal("Map", <<>>, <<>>, 0, <<>>, {}, m)
TSet(S) == TypeVal("Set", <<>>, <<>>, 0, <<>>, S, {})
TRDBFile(s) == TypeVal("RDBFile", s, <<>>, 0, <<>>, {}, {})

\* an order in which a HashSet or a HashMap hands out its items
an_order(v) == CHOOSE o \in Orders(v.set \cup v.map) : TRUE

\* Type::as_bytes, iter being the order in which v's own HashSet or HashMap iterates
RECURSIVE type_as_bytes(_, _)
RECURSIVE items_as_bytes(_)
items_as_bytes(items) ==
    IF items = <<>> THEN <<>>
    ELSE type_as_bytes(Head(items), an_order(Head(items))) \o items_as_bytes(Tail(items))

RECURSIVE pairs_as_bytes(_)
pairs_as_bytes(pairs) ==
    IF pairs = <<>> THEN <<>>
    ELSE type_as_bytes(Head(pairs)[1], an_order(Head(pairs)[1]))
         \o type_as_bytes(Head(pairs)[2], an_order(Head(pairs)[2]))
         \o pairs_as_bytes(Tail(pairs))

type_as_bytes(v, iter) ==
    CASE v.t = "SimpleString" -> <<"+">> \o v.s \o CRLF
      [] v.t = "SimpleError" -> <<"-">> \o v.s \o CRLF
      [] v.t = "Integer" -> <<":">> \o i64_to_string(v.n) \o CRLF
      [] v.t = "BulkString" -> <<"$">> \o usize_to_string(Len(v.s)) \o CRLF \o v.s \o CRLF
      [] v.t = "Array" -> <<"*">> \o usize_to_string(Len(v.arr)) \o CRLF \o items_as_bytes(v.arr)
      [] v.t = "Null" -> <<"_">> \o CRLF
      [] v.t = "Boolean" -> <<"#">> \o (IF v.n = 1 THEN <<"t", "r", "u", "e">>
                                                   ELSE <<"f", "a", "l", "s", "e">>) \o CRLF
      [] v.t = "Double" -> <<",">> \o i64_to_string(v.n) \o CRLF
      [] v.t = "BigNumber" -> <<"(">> \o i64_to_string(v.n) \o CRLF
      [] v.t = "BulkError" -> <<"!">> \o usize_to_string(Len(v.s)) \o CRLF
      [] v.t = "VerbatimString" ->
            <<"=">> \o usize_to_string(Len(v.s)) \o CRLF \o v.e \o <<":">> \o v.s \o CRLF
      [] v.t = "Map" -> <<"%">> \o usize_to_string(Cardinality(v.map)) \o CRLF
                        \o pairs_as_bytes(iter)
      [] v.t = "Set" -> <<"~">> \o usize_to_string(Cardinality(v.set)) \o CRLF
                        \o items_as_bytes(iter)
      [] v.t = "RDBFile" -> <<"$">> \o usize_to_string(Len(v.s)) \o CRLF \o v.s

\* what a parser returns: Ok((value, rest)), Err, or a panic of the thread
POk(v, rest) == [st |-> "ok", v |-> v, rest |-> rest]
PErr == [st |-> "err", v |-> TNull, rest |-> <<>>]
PPanic == [st |-> "panic", v |-> TNull, rest |-> <<>>]

\* &input[k..], for k <= input.len()
from(input, k) == SubSeq(input, k + 1, Len(input))

\* &input[k..] where the index is checked
rest_from(v, input, k) == IF k > Len(input) THEN PPanic ELSE POk(v, from(input, k))

\* BytesReader::find_crlf: the start of the first CRLF, -1 for NonTerminating
find_crlf(input) ==
    LET at == {i \in 1..(Len(input) - 1) : input[i] = "\r" /\ input[i + 1] = "\n"}
    IN  IF at = {} THEN -1 ELSE (CHOOSE i \in at : \A j \in at : i <= j) - 1

Max(a, b) == IF a > b THEN a ELSE b

\* BytesReader::slice then as_bytes, end_pos being the reader's end before the call:
\* input.len() on a fresh reader, 0 once as_bytes was called
slice(input, end_pos, start, end) ==
    LET lo == Min(start, end)
        hi == Max(start, end)
        s == IF lo >= Len(input) THEN end_pos ELSE lo
        e == IF hi > Len(input) THEN Len(input) ELSE hi
    IN  SubSeq(input, s + 1, e)

starts_with(bytes, prefix) ==
    Len(bytes) >= Len(prefix) /\ SubSeq(bytes, 1, Len(prefix)) = prefix

\* the decimal between the first byte and the first CRLF
header(input) == parse_i64(slice(input, Len(input), 1, find_crlf(input)))

RECURSIVE _parse(_)

\* resp::simple_string::parse
simple_string_parse(input) ==
    LET end_pos == find_crlf(input) IN
    IF end_pos < 0 THEN PErr
    ELSE POk(TSimpleString(slice(input, Len(input), 1, end_pos)), from(input, end_pos + 2))

\* resp::simple_error::parse
simple_error_parse(input) ==
    LET end_pos == find_crlf(input) IN
    IF end_pos < 0 THEN PErr
    ELSE POk(TSimpleError(slice(input, Len(input), 1, end_pos)), from(input, end_pos + 2))

\* resp::integer::parse
integer_parse(input) ==
    LET end_pos == find_crlf(input) IN
    IF end_pos < 0 \/ ~header(input).ok THEN PErr
    ELSE POk(TInteger(header(input).n), from(input, end_pos + 2))

\* resp::bulk_string::parse
bulk_string_parse(input) ==
    LET len_end_pos == find_crlf(input)
        data_start_pos == len_end_pos + 2
        length == header(input).n
        data_end_pos == data_start_pos + length
        bulk_string == slice(input, 0, data_start_pos, data_end_pos)
    IN  IF Len(input) < 4 \/ len_end_pos < 0 \/ ~header(input).ok THEN PErr
        ELSE IF length = -1 THEN POk(TNull, from(input, data_start_pos))
        ELSE IF length < 0 THEN PPanic      \* data_start_pos + length as usize overflows
        ELSE IF data_start_pos + length > Len(input) THEN PErr
        ELSE IF starts_with(bulk_string, Magic)
             THEN rest_from(TRDBFile(bulk_string), input, data_end_pos + 2)
             ELSE rest_from(TBulkString(bulk_string), input, data_end_pos + 2)

\* the loop of array::parse and set::parse: n values off the front of input
RECURSIVE parse_items(_, _, _)
parse_items(input, n, acc) ==
    IF n = 0 THEN [st |-> "ok", vs |-> acc, rest |-> input]
    ELSE LET r == _parse(input) IN
         IF r.st # "ok" THEN [st |-> r.st, vs |-> <<>>, rest |-> <<>>]
         ELSE parse_items(r.rest, n - 1, Append(acc, r.v))

\* resp::array::parse
array_parse(input) ==
    LET len_end_pos == find_crlf(input)
        data_start_pos == len_end_pos + 2
        length == header(input).n
        items == parse_items(from(input, data_start_pos), length, <<>>)
    IN  IF Len(input) < 4 \/ len_end_pos < 0 \/ ~header(input).ok THEN PErr
        ELSE IF length = -1 THEN POk(TNull, from(input, data_start_pos))
        ELSE IF length <= 0 THEN POk(TArray(<<>>), from(input, data_start_pos))
        ELSE IF items.st # "ok" THEN [st |-> items.st, v |-> TNull, rest |-> <<>>]
        ELSE POk(TArray(items.vs), items.rest)

\* resp::null::parse
null_parse(input) ==
    IF find_crlf(input) # 1 THEN PErr ELSE POk(TNull, from(input, 3))

\* resp::boolean::parse
boolean_parse(input) ==
    LET crlf_pos == find_crlf(input) IN
    IF Len(input) < 4 \/ crlf_pos < 0 \/ input[2] \notin {"t", "f"} THEN PErr
    ELSE POk(TBoolean(input[2] = "t"), from(input, crlf_pos + 2))

\* resp::double::parse, of a whole number
double_parse(input) ==
    LET end_pos == find_crlf(input) IN
    IF end_pos < 0 \/ ~header(input).ok THEN PErr
    ELSE POk(TDouble(header(input).n), from(input, end_pos + 2))

\* resp::big_number::parse
big_number_parse(input) ==
    LET end_pos == find_crlf(input) IN
    IF end_pos < 0 \/ ~header(input).ok THEN PErr
    ELSE POk(TBigNumber(header(input).n), from(input, end_pos + 2))

\* resp::bulk_error::parse
bulk_error_parse(input) ==
    LET len_end_pos == find_crlf(input)
        data_start_pos == len_end_pos + 2
        length == header(input).n
        error_end_pos == data_start_pos + length
        error_message == slice(input, 0, data_start_pos, error_end_pos)
    IN  IF len_end_pos < 0 \/ ~header(input).ok THEN PErr
        ELSE IF length < 0 THEN PPanic      \* data_start_pos + length as usize overflows
        ELSE rest_from(TBulkError(error_message), input, error_end_pos + 2)

\* resp::verbatim_string::parse
verbatim_string_parse(input) ==
    LET len_end_pos == find_crlf(input)
        data_start_pos == len_end_pos + 2
        length == header(input).n
        total_length == data_start_pos + 3 + 1 + length + 2
        data == SubSeq(input, data_start_pos + 1, data_start_pos + length)
        colons == {i \in 1..Len(data) : data[i] = ":"}
        position == (CHOOSE i \in colons : \A j \in colons : i <= j) - 1
        encoding_part == SubSeq(input, data_start_pos + 1, data_start_pos + position)
        verbatim_string_part == from(input, data_start_pos + position + 1)
    IN  IF len_end_pos < 0 \/ ~header(input).ok THEN PErr
        ELSE IF length < 0 THEN PPanic      \* length as usize overflows the sum
        ELSE IF Len(input) < total_length THEN PErr
        ELSE IF colons = {} THEN PPanic     \* self.find(bytes).unwrap()
        ELSE POk(TVerbatimString(encoding_part,
                                 slice(verbatim_string_part, Len(verbatim_string_part), 0, length)),
                 from(input, total_length))

\* the loop of map::parse: n pairs off the front of input
RECURSIVE parse_pairs(_, _, _)
parse_pairs(input, n, acc) ==
    IF n = 0 THEN [st |-> "ok", vs |-> acc, rest |-> input]
    ELSE LET key == _parse(input)
             value == _parse(key.rest)
         IN  IF key.st # "ok" THEN [st |-> key.st, vs |-> <<>>, rest |-> <<>>]
             ELSE IF value.st # "ok" THEN [st |-> value.st, vs |-> <<>>, rest |-> <<>>]
             ELSE parse_pairs(value.rest, n - 1, Append(acc, <<key.v, value.v>>))

\* HashMap::insert over the pairs parsed: a later pair replaces an earlier one of its key
RECURSIVE insert_all(_, _)
insert_all(m, pairs) ==
    IF pairs = <<>> THEN m
    ELSE insert_all({p \in m : p[1] # Head(pairs)[1]} \cup {Head(pairs)}, Tail(pairs))

\* resp::map::parse
map_parse(input) ==
    LET len_end_pos == find_crlf(input)
        data_start_pos == len_end_pos + 2
        length == header(input).n
        pairs == parse_pairs(from(input, data_start_pos), length, <<>>)
    IN  IF len_end_pos < 0 \/ ~header(input).ok THEN PErr
        ELSE IF length = -1 THEN POk(TNull, from(input, data_start_pos))
        ELSE IF length <= 0 THEN POk(TMap({}), from(input, data_start_pos))
        ELSE IF pairs.st # "ok" THEN [st |-> pairs.st, v |-> TNull, rest |-> <<>>]
        ELSE POk(TMap(insert_all({}, pairs.vs)), pairs.rest)

\* resp::set::parse
set_parse(input) ==
    LET len_end_pos == find_crlf(input)
        data_start_pos == len_end_pos + 2
        length == header(input).n
        elements == parse_items(from(input, data_start_pos), length, <<>>)
    IN  IF len_end_pos < 0 \/ ~header(input).ok THEN PErr
        ELSE IF length <= 0 THEN POk(TSet({}), from(input, data_start_pos))
        ELSE IF elements.st # "ok" THEN [st |-> elements.st, v |-> TNull, rest |-> <<>>]
        ELSE POk(TSet(Range(elements.vs)), from(input, data_start_pos))

\* parser::_parse
_parse(input) ==
    IF input = <<>> THEN PErr
    ELSE CASE input[1] = "+" -> simple_string_parse(input)
           [] input[1] = "-" -> simple_error_parse(input)
           [] input[1] = ":" -> integer_parse(input)
           [] input[1] = "$" -> bulk_string_parse(input)
           [] input[1] = "*" -> array_parse(input)
           [] input[1] = "_" -> null_parse(input)
           [] input[1] = "#" -> boolean_parse(input)
           [] input[1] = "," -> double_parse(input)
           [] input[1] = "(" -> big_number_parse(input)
           [] input[1] = "!" -> bulk_error_parse(input)
           [] input[1] = "=" -> verbatim_string_parse(input)
           [] input[1] = "%" -> map_parse(input)
           [] input[1] = "~" -> set_parse(input)
           [] OTHER -> PErr

\* parser::parse: values off the input until it is empty
RECURSIVE decode_from(_, _)
decode_from(remaining, data) ==
    IF remaining = <<>> THEN [st |-> "ok", data |-> data]
    ELSE LET r == _parse(remaining) IN
         IF r.st # "ok" THEN [st |-> r.st, data |-> <<>>]
         ELSE decode_from(r.rest, Append(data, r.v))

decode(input) == decode_from(input, <<>>)

\* the values drawn
Texts == {[i \in 1..n |-> "a"] : n \in 0..MaxText}
Encodings == {<<"t", "x", "t">>}
Numbers == {-1, 0, 1}
Scalars ==
    {TSimpleString(s) : s \in Texts} \cup {TSimpleError(s) : s \in Texts}
    \cup {TBulkString(s) : s \in Texts} \cup {TBulkError(s) : s \in Texts}
    \cup {TVerbatimString(e, s) : e \in Encodings, s \in Texts}
    \cup {TInteger(n) : n \in Numbers} \cup {TDouble(n) : n \in Numbers}
    \cup {TBigNumber(n) : n \in Numbers}
    \cup {TBoolean(b) : b \in BOOLEAN} \cup {TNull}
Items == {TSimpleError(s) : s \in Texts} \cup {TBulkString(s) : s \in Texts}
         \cup {TInteger(0), TBoolean(TRUE)}
Arrays == UNION {{TArray(a) : a \in [1..n -> Items]} : n \in 0..MaxItems}
Sets == {TSet(S) : S \in {T \in SUBSET Items : Cardinality(T) <= MaxItems}}
Maps == {TMap({})} \cup {TMap({<<k, x>>}) : k \in Items, x \in Items}
RDBFiles == {TRDBFile(Magic \o s) : s \in Texts}
Values == Scalars \cup Arrays \cup Sets \cup Maps

\* what goes through the codec: one value, or the snapshot of a full resync with
\* what the link carries behind it
CodecInputs ==
    {<<v>> : v \in Values \cup RDBFiles}
    \cup {<<f, TArray(<<c>>)>> : f \in RDBFiles, c \in {TBulkString(s) : s \in Texts \ {<<>>}}}

RECURSIVE encode_all(_, _)
encode_all(vs, iter) ==
    IF vs = <<>> THEN <<>>
    ELSE type_as_bytes(Head(vs), iter) \o encode_all(Tail(vs), iter)

\* the writer's side: the values leave as the bytes of as_bytes
encode ==
    /\ codec.pc = "value"
    /\ \E iter \in Orders(codec.vs[1].set \cup codec.vs[1].map) :
          codec' = [codec EXCEPT !.pc = "bytes", !.bytes = encode_all(codec.vs, iter)]
    /\ UNCHANGED <<pc, hs, buf, buflen, sock, out, master_repl_offset, repl_offset, replicas,
                   db, lock, subs, bq, wc, w, quota, nextId, linkBytes, doneBytes, setBytes,
                   lastAck, now, askedPx, wcFrom>>

\* the reader's side: parser::parse over the bytes that arrived
decode_bytes ==
    /\ codec.pc = "bytes"
    /\ codec' = [codec EXCEPT !.pc = "parsed", !.st = decode(codec.bytes).st,
                              !.data = decode(codec.bytes).data]
    /\ UNCHANGED <<pc, hs, buf, buflen, sock, out, master_repl_offset, repl_offset, replicas,
                   db, lock, subs, bq, wc, w, quota, nextId, linkBytes, doneBytes, setBytes,
                   lastAck, now, askedPx, wcFrom>>

CodecInit ==
    /\ Wiring(MaxReads)
    /\ codec \in {[pc |-> "value", vs |-> vs, bytes |-> <<>>, st |-> "", data |-> <<>>] :
                  vs \in CodecInputs}

CodecNext == encode \/ decode_bytes

CodecSpec == CodecInit /\ [][CodecNext]_vars

(***************************************************************************)
(* SETs that set::command answers with an error, sent by a client of a     *)
(* master that has a replica.                                              *)
(***************************************************************************)
SetShort == <<"SET", "k">>
SetPxText == <<"SET", "k", "v", "PX", "x">>
SetPxMissing == <<"SET", "k", "v", "PX">>

RejRequests == { <<Array(SetShort)>>, <<Array(SetPxText)>>, <<Array(SetPxMissing)>> }

rej_client_read(e) ==
    /\ e = <<Master, "c1">>
    /\ pc[e] = "read"
    /\ quota > 0
    /\ \E req \in RejRequests :
          /\ buf' = [buf EXCEPT ![e] = req]
          /\ buflen' = [buflen EXCEPT ![e] = BytesOf(req)]
    /\ pc' = [pc EXCEPT ![e] = "exec"]
    /\ quota' = quota - 1
    /\ UNCHANGED <<hs, sock, out, master_repl_offset, repl_offset, replicas, db, lock,
                   subs, bq, wc, w, nextId, linkBytes, doneBytes, setBytes, lastAck, now, askedPx, codec, wcFrom>>

RejStep(e) ==
    \/ rej_client_read(e)
    \/ send_handshake_write(e)
    \/ send_handshake_read(e)
    \/ link_read(e)
    \/ ping_command(e)
    \/ set_command(e)
    \/ broadcast(e)
    \/ replconf_command(e)
    \/ psync_command(e)
    \/ psync_send_rdb(e)
    \/ receive_subscribe(e)
    \/ receive_forward(e)
    \/ acct(e)

RejNext == \E e \in Ends : RejStep(e)

RejSpec == Init /\ [][RejNext]_vars

(***************************************************************************)
(* The replica's handshake against a peer that is not this program: the    *)
(* other end of the link answers each step with a frame of its choice and  *)
(* then sends a command.  Role::send_handshake is the code under test.     *)
(***************************************************************************)
ExpectedReply(i) ==
    CASE i = 1 -> SimpleString("PONG")
      [] i \in {2, 3} -> SimpleString("OK")
      [] OTHER -> SimpleString("FULLRESYNC " \o master_replid \o " 0")

PeerReplies(i) == {ExpectedReply(i), SimpleError("ERR"), Integer(0)}

\* the peer receives the frame of a handshake step and answers it
peer_reply(e) ==
    /\ e \in LinkOnMaster
    /\ sock[e] # <<>>
    /\ \E f \in PeerReplies(Len(out[e]) + 1) :
          write_all(e, f, [sock EXCEPT ![e] = Tail(@)])
    /\ UNCHANGED <<pc, hs, buf, buflen, master_repl_offset, repl_offset, replicas, db, lock,
                   subs, bq, wc, w, quota, nextId, linkBytes, doneBytes, setBytes, lastAck, now, askedPx, codec, wcFrom>>

\* the peer, having answered the four steps, sends a write
peer_send(e) ==
    /\ e \in LinkOnMaster
    /\ Len(out[e]) >= Len(HandshakeFrames)
    /\ sock[e] = <<>>
    /\ quota > 0
    /\ write_all(e, Array(SetCmd), sock)
    /\ quota' = quota - 1
    /\ UNCHANGED <<pc, hs, buf, buflen, master_repl_offset, repl_offset, replicas, db, lock,
                   subs, bq, wc, w, nextId, linkBytes, doneBytes, setBytes, lastAck, now, askedPx, codec, wcFrom>>

HandshakeStep(e) ==
    \/ send_handshake_write(e)
    \/ send_handshake_read(e)
    \/ link_read(e)
    \/ set_command(e)
    \/ broadcast(e)
    \/ acct(e)

HandshakeNext ==
    \/ \E e \in LinkOnMaster : peer_reply(e) \/ peer_send(e)
    \/ \E e \in LinkOnReplica : HandshakeStep(e)

HandshakeSpec == Init /\ [][HandshakeNext]_vars

(***************************************************************************)
(* A client that writes faster than the replica writer forwards: enough    *)
(* SETs to overrun the broadcast ring.                                     *)
(***************************************************************************)
lag_client_read(e) ==
    /\ e = <<Master, "c1">>
    /\ pc[e] = "read"
    /\ quota > 0
    /\ buf' = [buf EXCEPT ![e] = <<Array(SetCmd)>>]
    /\ buflen' = [buflen EXCEPT ![e] = BytesOf(<<Array(SetCmd)>>)]
    /\ pc' = [pc EXCEPT ![e] = "exec"]
    /\ quota' = quota - 1
    /\ UNCHANGED <<hs, sock, out, master_repl_offset, repl_offset, replicas, db, lock,
                   subs, bq, wc, w, nextId, linkBytes, doneBytes, setBytes, lastAck, now, askedPx, codec, wcFrom>>

\* the master's side of the link and of its client
LagStep(e) ==
    \/ lag_client_read(e)
    \/ link_read(e)
    \/ ping_command(e)
    \/ set_command(e)
    \/ broadcast(e)
    \/ replconf_command(e)
    \/ psync_command(e)
    \/ psync_send_rdb(e)
    \/ receive_subscribe(e)
    \/ receive_forward(e)
    \/ receive_lagged(e)
    \/ acct(e)

\* the replica, which after its handshake is too busy to read its link
LagLink(e) == send_handshake_write(e) \/ send_handshake_read(e)

LagInit == Boot(RingCap + 1)

LagNext ==
    \/ \E e \in LinkOnMaster \cup ClientEnds : LagStep(e)
    \/ \E e \in LinkOnReplica : LagLink(e)

LagSpec == LagInit /\ [][LagNext]_vars

(***************************************************************************)
(* A peer that asks for a resynchronisation: one read of the connection    *)
(* holds two PSYNCs, and another client overruns the broadcast ring.       *)
(***************************************************************************)
PsyncCmd == <<"PSYNC", "?", "-1">>

ResyncRequests(e) ==
    CASE e = <<Master, "c2">> /\ quota > RingCap + 1 -> { <<Array(PsyncCmd), Array(PsyncCmd)>> }
      [] e = <<Master, "c1">> /\ quota <= RingCap + 1 -> { <<Array(SetCmd)>> }
      [] OTHER -> {}

resync_client_read(e) ==
    /\ pc[e] = "read"
    /\ quota > 0
    /\ \E req \in ResyncRequests(e) :
          /\ buf' = [buf EXCEPT ![e] = req]
          /\ buflen' = [buflen EXCEPT ![e] = BytesOf(req)]
    /\ pc' = [pc EXCEPT ![e] = "exec"]
    /\ quota' = quota - 1
    /\ UNCHANGED <<hs, sock, out, master_repl_offset, repl_offset, replicas, db, lock,
                   subs, bq, wc, w, nextId, linkBytes, doneBytes, setBytes, lastAck, now, askedPx, codec, wcFrom>>

ResyncStep(e) ==
    \/ resync_client_read(e)
    \/ set_command(e)
    \/ broadcast(e)
    \/ psync_command(e)
    \/ psync_send_rdb(e)
    \/ receive_subscribe(e)
    \/ receive_forward(e)
    \/ receive_lagged(e)
    \/ acct(e)

ResyncInit == Boot(RingCap + 2)

ResyncNext == \E e \in ClientEnds : ResyncStep(e)

ResyncSpec == ResyncInit /\ [][ResyncNext]_vars

(***************************************************************************)
(* A client that talks to the replica directly.                            *)
(***************************************************************************)
DirectRequests == { <<Array(SetCmd)>>, <<Array(GetCmd)>>, <<Array(<<"PING">>)>> }

direct_client_read(e) ==
    /\ e \in ClientEnds
    /\ ~is_master(Node(e))
    /\ pc[e] = "read"
    /\ quota > 0
    /\ Listening(Node(e))
    /\ \E req \in DirectRequests :
          /\ buf' = [buf EXCEPT ![e] = req]
          /\ buflen' = [buflen EXCEPT ![e] = BytesOf(req)]
    /\ pc' = [pc EXCEPT ![e] = "exec"]
    /\ quota' = quota - 1
    /\ UNCHANGED <<hs, sock, out, master_repl_offset, repl_offset, replicas, db, lock,
                   subs, bq, wc, w, nextId, linkBytes, doneBytes, setBytes, lastAck, now, askedPx, codec, wcFrom>>

DirectStep(e) ==
    \/ direct_client_read(e)
    \/ send_handshake_write(e)
    \/ send_handshake_read(e)
    \/ link_read(e)
    \/ ping_command(e)
    \/ set_command(e)
    \/ broadcast(e)
    \/ get_command(e)
    \/ replconf_command(e)
    \/ psync_command(e)
    \/ psync_send_rdb(e)
    \/ receive_subscribe(e)
    \/ acct(e)

DirectNext == \E e \in Ends : DirectStep(e)

DirectSpec == Init /\ [][DirectNext]_vars

(***************************************************************************)
(* A socket read that ends in the middle of a command: complete commands   *)
(* followed by the first bytes of another.                                 *)
(***************************************************************************)
Words == {TBulkString(s) : s \in Texts \ {<<>>}}
Cmds == UNION {{TArray(a) : a \in [1..n -> Words]} : n \in 1..MaxItems}
PartialInputs == {<<c, d>> : c \in Cmds, d \in Cmds}

\* Connection::read: the bytes of the values but for the last, then only a
\* proper, non-empty prefix of the bytes of the last
read_partial ==
    /\ codec.pc = "value"
    /\ LET n == Len(codec.vs)
           whole == encode_all(SubSeq(codec.vs, 1, n - 1), <<>>)
           last == type_as_bytes(codec.vs[n], <<>>)
       IN  \E cut \in 1..(Len(last) - 1) :
              codec' = [codec EXCEPT !.pc = "bytes", !.bytes = whole \o SubSeq(last, 1, cut)]
    /\ UNCHANGED <<pc, hs, buf, buflen, sock, out, master_repl_offset, repl_offset, replicas,
                   db, lock, subs, bq, wc, w, quota, nextId, linkBytes, doneBytes, setBytes,
                   lastAck, now, askedPx, wcFrom>>

PartialInit ==
    /\ Wiring(MaxReads)
    /\ codec \in {[pc |-> "value", vs |-> vs, bytes |-> <<>>, st |-> "", data |-> <<>>] :
                  vs \in PartialInputs}

PartialNext == read_partial \/ decode_bytes

PartialSpec == PartialInit /\ [][PartialNext]_vars

(***************************************************************************)
(* The properties.                                                         *)
(***************************************************************************)
Forwarded(e, name) ==
    \E i \in 1..Len(out[e]) : out[e][i].t = "Array" /\ out[e][i].id > 0 /\ out[e][i].a[1] = name

\* nothing is left to forward, to read or to handle on the link of writer e
LinkSettled(e) ==
    /\ pc[e] = "recv"
    /\ bq[e] = <<>>
    /\ sock[PeerEnd(e)] = <<>>
    /\ pc[PeerEnd(e)] \in {"read", "dead", "closed"}

\* C1: once a SET k v has been forwarded on a replica's connection and the
\* link has nothing left to deliver or to handle, the replica's keyspace
\* contains k = v.
C1_WritePropagation ==
    \A e \in LinkOnMaster :
        (Forwarded(e, "SET") /\ LinkSettled(e)) => db[e[2]]["k"].value = "v"

LastOut(e) == out[e][Len(out[e])]

\* C2: a WAIT that went through its loop, and during which every replica
\* registered at its start delivered an acknowledgement of an offset >= the
\* snapshot, replies Integer(min(numreplicas, N)).
C2_WaitCountsAcks ==
    \A e \in ClientEnds :
        ( /\ pc[e] = "acct"
          /\ Command(e) = "WAIT"
          /\ w[e].regs # {}
          /\ w[e].regs \subseteq w[e].acked )
        => LastOut(e) = Integer(Min(parse_u64(Head1(e).a[2]), w[e].n))

\* C3: the task of a well-formed WAIT on a master never ends before the
\* Integer reply is written.
C3_WaitReplies ==
    \A e \in ClientEnds :
        ~( /\ is_master(Node(e))
           /\ pc[e] = "dead"
           /\ buf[e] # <<>>
           /\ Command(e) = "WAIT" )

\* C4: whenever the replica's link task waits for its next read, repl_offset
\* is the sum of the encoded lengths of the commands read from the link.
C4_ReplicaByteAccounting ==
    \A e \in LinkOnReplica :
        pc[e] = "read" => repl_offset[Node(e)] = linkBytes[Node(e)]

SetInProgress(e) ==
    /\ pc[e] \in {"set_bcast", "acct"}
    /\ Command(e) = "SET"

\* C5: whenever no SET is in progress on the master, master_repl_offset is
\* the sum of the encoded lengths of the SETs that succeeded.
C5_MasterByteAccounting ==
    (\A e \in Ends : is_master(Node(e)) => ~SetInProgress(e))
    => master_repl_offset[Master] = setBytes[Master]

\* C6: the offset a replica acknowledges is the total encoded length of the
\* commands it handled on the link before this GETACK.
C6_AckIsEarlierBytes ==
    \A n \in Replicas : lastAck[n][1] = lastAck[n][2]

\* C7: the broadcast messages written on a connection appear there in the
\* order of their publication.
C7_BroadcastFifo ==
    \A e \in Ends : \A i, j \in 1..Len(out[e]) :
        (i < j /\ out[e][i].id > 0 /\ out[e][j].id > 0) => out[e][i].id < out[e][j].id

\* two broadcast messages, a SET and a GETACK, were forwarded on a master's link
C7_Witness ==
    \E e \in LinkOnMaster :
        /\ Forwarded(e, "SET")
        /\ Forwarded(e, "REPLCONF")

FullResync0 == SimpleString("FULLRESYNC " \o master_replid \o " 0")

\* C8: an accepted PSYNC is answered +FULLRESYNC <replid> 0, then the RDB
\* frame, and the connection is subscribed only after both.
C8_PsyncAnswer ==
    \A e \in Ends :
        /\ pc[e] = "psync_sleep" =>
              /\ LastOut(e) = FullResync0
              /\ e \notin subs[Node(e)]
        /\ (pc[e] = "subscribe" /\ is_master(Node(e)) /\ Len(Head1(e).a) >= 3) =>
              /\ LastOut(e) = RDBFile
              /\ out[e][Len(out[e]) - 1] = FullResync0
              /\ e \notin subs[Node(e)]

InHandshake(e) == pc[e] \in {"hs_send", "hs_read"}

\* C9: the replica writes the four handshake requests in their order, each
\* after the reply to the one before it was written and read, and handles
\* no command of the link before the PSYNC step is over.
C9_HandshakeOrder ==
    \A e \in LinkOnReplica :
        /\ \A i \in 1..Min(Len(out[e]), Len(HandshakeFrames)) : out[e][i] = HandshakeFrames[i]
        /\ pc[e] = "hs_send" =>
              /\ Len(out[e]) = hs[e] - 1
              /\ Len(out[PeerEnd(e)]) = hs[e] - 1
              /\ sock[e] = <<>>
        /\ pc[e] = "hs_read" => Len(out[e]) = hs[e]
        /\ InHandshake(e) =>
              /\ repl_offset[Node(e)] = 0
              /\ buf[e] = <<>>
              /\ db[Node(e)] = [k \in Keys |-> NoItem]

\* the handshake is over and the replica has handled a command of the link
C9_Witness ==
    \E e \in LinkOnReplica :
        /\ ~InHandshake(e)
        /\ Len(out[e]) >= Len(HandshakeFrames)
        /\ repl_offset[Node(e)] > 0

\* the command at the head of e's buffer is one its server's role refuses
Gated(e) ==
    /\ buf[e] # <<>>
    /\ Head1(e).t = "Array"
    /\ IF is_master(Node(e))
       THEN Command(e) = "REPLCONF" /\ Len(Head1(e).a) >= 3 /\ is_wait_cmd(Head1(e).a)
       ELSE Command(e) \in {"WAIT", "PSYNC"}

ServerState(n) ==
    <<replicas[n], master_repl_offset[n], repl_offset[n], db[n], subs[n], wc[n]>>

\* C10: the task handling a refused command answers it with a SimpleError
\* and none of its steps changes the state of its server.
C10_RoleGating ==
    [][ \A e \in ClientEnds :
          (Gated(e) /\ pc'[e] # pc[e]) =>
             /\ ServerState(Node(e))' = ServerState(Node(e))
             /\ nextId' = nextId
             /\ pc[e] = "exec" => (out'[e] = Append(out[e], LastOut(e)') /\ LastOut(e)'.t = "SimpleError")
      ]_vars

\* the frames a replica wrote on its link after the four of the handshake
LinkReplies(e) == SubSeq(out[e], Len(HandshakeFrames) + 1, Len(out[e]))

IsAck(f) == f.t = "Array" /\ Len(f.a) = 3 /\ f.a[1] = "REPLCONF" /\ f.a[2] = "ACK"

\* C11: on its replication link a replica writes nothing back to the master
\* but the REPLCONF ACK that answers a REPLCONF GETACK.
C11_SilentReplica ==
    \A e \in LinkOnReplica :
        \A i \in 1..Len(LinkReplies(e)) : IsAck(LinkReplies(e)[i])

\* a task holds the wait-channel mutex in a send that the full channel blocks
SendBlocked(e) == pc[e] = "wc_send" /\ Len(wc[Node(e)]) >= WaitCap

\* C12: no replica writer is blocked sending an acknowledgement into the full
\* wait channel, holding the wait-channel mutex, while a WAIT handler of the
\* same server needs that mutex to drain the channel.
C12_NoWaitChannelDeadlock ==
    \A e \in LinkOnMaster : \A x \in ClientEnds :
        ~( /\ SendBlocked(e)
           /\ Node(x) = Node(e)
           /\ pc[x] = "wait_sleep" )

\* the task of e answers a GET of a key in this step
GetStep(e) ==
    /\ Executing(e, "GET")
    /\ Len(Head1(e).a) = 2
    /\ Head1(e).a[2] \in Keys
    /\ pc'[e] = "acct"

\* C13: a GET of a key whose last SET carried PX t is answered with the value
\* of that SET while fewer than t ms have passed since it, and with no value
\* once t ms or more have passed.
C13_ExpiryVisibility ==
    [][ \A e \in ClientEnds :
          LET n == Node(e)
              k == Head1(e).a[2]
          IN  (GetStep(e) /\ db[n][k] # NoItem /\ askedPx[n][k] >= 0) =>
                 IF now - db[n][k].created_at < askedPx[n][k]
                 THEN LastOut(e)' = BulkString(db[n][k].value)
                 ELSE LastOut(e)' # BulkString(db[n][k].value)
      ]_vars

\* C14: a GET of a key that is absent or expired is answered with the bytes
\* $-1\r\n.
C14_NullBulkReply ==
    [][ \A e \in ClientEnds :
          (GetStep(e) /\ get(Node(e), Head1(e).a[2]) = NoItem) =>
             as_bytes(LastOut(e)') = "$-1\r\n"
      ]_vars

\* the task of e stores the key of a SET and answers +OK in this step
SetStep(e) ==
    /\ Executing(e, "SET")
    /\ Len(Head1(e).a) >= 3
    /\ pc'[e] = "set_bcast"
    /\ Len(out'[e]) = Len(out[e]) + 1
    /\ LastOut(e)' = SimpleString("OK")

\* C15: a SET that succeeds stores its key with the TTL of its PX option, in
\* milliseconds, and with no expiration when it carries no PX option.
C15_SetTtl ==
    [][ \A e \in ClientEnds :
          SetStep(e) =>
             db'[Node(e)][Head1(e).a[2]].expires_at = px_option(Head1(e).a)
      ]_vars

\* the task of e answers a KEYS in this step
KeysStep(e) ==
    /\ Executing(e, "KEYS")
    /\ Len(Head1(e).a) = 2
    /\ pc'[e] = "acct"

\* C20: the reply to KEYS holds the keys a GET would return a value for, and
\* no other.
C20_KeysLive ==
    [][ \A e \in ClientEnds :
          KeysStep(e) =>
             /\ LastOut(e)'.t = "Array"
             /\ Range(LastOut(e)'.a) = {k \in Keys : get(Node(e), k) # NoItem}
      ]_vars

\* the lexicographic order on (ms, seq)
id_lt(a, b) == a[1] < b[1] \/ (a[1] = b[1] /\ a[2] < b[2])
id_le(a, b) == a = b \/ id_lt(a, b)

\* the IDs the XADDs of client e returned, in their order: only XADD answers
\* with a bulk string
XaddReplies(e) == SelectSeq(out[e], LAMBDA f : f.t = "BulkString")

\* C16: of two successive successful XADDs on a stream the second returns
\* the greater ID in the lexicographic order on (ms, seq).
C16_StreamIdMonotonic ==
    \A e \in ClientEnds :
        \A i \in 1..(Len(XaddReplies(e)) - 1) :
            id_lt(from_id(XaddReplies(e)[i].a[1]), from_id(XaddReplies(e)[i + 1].a[1]))

\* the task of e answers an XADD that spells out both parts of its ID
XaddStep(e) ==
    /\ Executing(e, "XADD")
    /\ Len(Head1(e).a) = 5
    /\ split_once(Head1(e).a[3]) # <<>>
    /\ parse_u64(split_once(Head1(e).a[3])[1]) >= 0
    /\ parse_u64(split_once(Head1(e).a[3])[2]) >= 0
    /\ pc'[e] = "acct"

\* C17: an XADD whose ID is 0-0, or is not greater than the ID the last
\* successful XADD on the stream returned, is answered with a SimpleError
\* and changes nothing in the keyspace.
C17_XaddRejects ==
    [][ \A e \in ClientEnds :
          LET id == from_id(Head1(e).a[3])
              r == XaddReplies(e)
          IN  ( /\ XaddStep(e)
                /\ \/ id = <<0, 0>>
                   \/ r # <<>> /\ id_le(id, from_id(r[Len(r)].a[1])) )
              => /\ LastOut(e)'.t = "SimpleError"
                 /\ Len(out'[e]) = Len(out[e]) + 1
                 /\ db' = db
      ]_vars

\* the task of e answers an XRANGE on a key that holds a stream
XrangeStep(e) ==
    /\ Executing(e, "XRANGE")
    /\ Len(Head1(e).a) = 4
    /\ stream_of(Node(e), Head1(e).a[2]) # <<>>
    /\ pc'[e] = "acct"

\* C18: XRANGE stream start end returns, in stream order, the entries whose
\* ID lies between start and end, both included, in the lexicographic order
\* on (ms, seq).
C18_XrangeLexicographic ==
    [][ \A e \in ClientEnds :
          XrangeStep(e) =>
             LET start == from_id(Head1(e).a[3])
                 end == from_id(Head1(e).a[4])
                 hits == SelectSeq(stream_of(Node(e), Head1(e).a[2]),
                                   LAMBDA entry : /\ id_le(start, entry_id(entry))
                                                  /\ id_le(entry_id(entry), end))
             IN  /\ LastOut(e)'.t = "Array"
                 /\ LastOut(e)'.a = entries_reply(hits)
      ]_vars

\* the task of e answers an XREAD STREAMS key id on a key that holds a stream
XreadStep(e) ==
    /\ pc[e] = "exec"
    /\ Head1(e).t = "Array"
    /\ Len(Head1(e).a) = 4
    /\ Command(e) = "XREAD"
    /\ stream_of(Node(e), Head1(e).a[3]) # <<>>
    /\ pc'[e] = "acct"

\* C19: XREAD STREAMS key id returns for the stream [key, entries], the
\* entries being those whose ID is greater than id in the lexicographic
\* order on (ms, seq).
C19_XreadStrictlyGreater ==
    [][ \A e \in ClientEnds :
          XreadStep(e) =>
             LET id == from_id(Head1(e).a[4])
                 hits == SelectSeq(stream_of(Node(e), Head1(e).a[3]),
                                   LAMBDA entry : id_lt(id, entry_id(entry)))
             IN  /\ LastOut(e)'.t = "Array"
                 /\ Len(LastOut(e)'.a) = 1
                 /\ LastOut(e)'.a[1].t = "Array"
                 /\ LastOut(e)'.a[1].a[1] = BulkString(Head1(e).a[3])
                 /\ LastOut(e)'.a[1].a[2].a = entries_reply(hits)
      ]_vars

\* C21: an XADD whose element count, the command name included, is even or
\* below 5 is answered with the wrong-number-of-arguments error and changes
\* nothing in the keyspace.
C21_XaddArity ==
    [][ \A e \in ClientEnds :
          ( /\ Executing(e, "XADD")
            /\ pc'[e] = "acct"
            /\ (Len(Head1(e).a) < 5 \/ Len(Head1(e).a) % 2 = 0) )
          => /\ Len(out'[e]) = Len(out[e]) + 1
             /\ LastOut(e)' = SimpleError("ERR wrong number of arguments for 'XADD' command")
             /\ db' = db
      ]_vars

\* the command the task of e is handling is one of the bad ones
HandlingBad(e) ==
    /\ pc[e] \in {"exec", "acct"}
    /\ buf[e] # <<>>
    /\ Head1(e).a \in BadCmds

\* C22: a bad command on a client connection is answered with a SimpleError
\* and the task of the connection goes on to the client's next command.
C22_BadInputAnswered ==
    [][ \A e \in ClientEnds :
          (HandlingBad(e) /\ pc'[e] # pc[e]) =>
             /\ pc'[e] # "dead"
             /\ pc[e] = "exec" =>
                   /\ Len(out'[e]) = Len(out[e]) + 1
                   /\ LastOut(e)'.t = "SimpleError"
      ]_vars


\* the Null / empty-BulkString conflation
Conflated(v, d) ==
    \/ v = TBulkString(<<>>) /\ d = TNull
    \/ v = TNull /\ d = TBulkString(<<>>)

\* C23: RESP round trip.  For every value V the codec encodes (all variants, BulkError,
\* VerbatimString, Set, Map and whole-number Double among them; the RDBFile framing is C24's),
\* parsing the bytes of as_bytes(V) succeeds and yields exactly [V], no byte left over, the
\* only exception allowed being the Null / empty-BulkString conflation.
C23_RoundTrip ==
    (codec.pc = "parsed" /\ Len(codec.vs) = 1 /\ codec.vs[1].t # "RDBFile") =>
        /\ codec.st = "ok"
        /\ Len(codec.data) = 1
        /\ codec.data[1] = codec.vs[1] \/ Conflated(codec.vs[1], codec.data[1])

\* C24: a bulk frame whose payload begins with REDIS0011 and which no CRLF follows, as
\* as_bytes frames an RDBFile, parses without error to that RDBFile, and the command
\* behind it on the link, if any, parses intact after it.
C24_RdbFraming ==
    (codec.pc = "parsed" /\ codec.vs[1].t = "RDBFile") =>
        /\ codec.st = "ok"
        /\ codec.data = codec.vs


\* the task of e handles a well-formed WAIT on a master whose offset is 0
WaitAtZero(e) ==
    /\ Executing(e, "WAIT")
    /\ is_master(Node(e))
    /\ Len(Head1(e).a) >= 3
    /\ parse_u64(Head1(e).a[2]) >= 0
    /\ parse_u64(Head1(e).a[3]) >= 0
    /\ master_repl_offset[Node(e)] = 0
    /\ pc'[e] # pc[e]

\* C25: a WAIT that finds master_repl_offset = 0 replies Integer(N), N the number of
\* registered replicas, in the step that reads the offset: no GETACK is broadcast and
\* the handler does not enter the sleep of its loop.
C25_WaitAtOffsetZero ==
    [][ \A e \in ClientEnds :
          WaitAtZero(e) =>
             /\ Len(out'[e]) = Len(out[e]) + 1
             /\ LastOut(e)' = Integer(Len(replicas[Node(e)]))
             /\ pc'[e] = "acct"
             /\ bq' = bq
             /\ nextId' = nextId
      ]_vars

\* a WAIT was answered with the one registered replica while the offset was 0
C25_Witness ==
    \E e \in ClientEnds :
        /\ pc[e] = "acct"
        /\ Command(e) = "WAIT"
        /\ master_repl_offset[Node(e)] = 0
        /\ Len(replicas[Node(e)]) = 1
        /\ out[e] # <<>>
        /\ LastOut(e) = Integer(1)


\* the SETs that entered the ring of link l with a publish number below id
SetsSent(l, id) ==
    {m \in Range(out[l]) \cup Range(bq[l]) :
        m.t = "Array" /\ m.id > 0 /\ m.id < id /\ m.a[1] = "SET"}

\* the WAIT of e counts one more replica in this step
Counts(e) ==
    /\ pc[e] = "wait_sleep"
    /\ w'[e].synced > w[e].synced

\* C26: when a WAIT counts a replica as synced, the replica has applied the SETs that
\* were broadcast to it before the WAIT began: its keyspace holds the key they set.
C26_SyncedMeansApplied ==
    [][ \A e \in ClientEnds : \A l \in LinkOnMaster :
          (Counts(e) /\ SetsSent(l, w[e].start) # {}) => db[l[2]]["k"] # NoItem
      ]_vars


\* the connection l was appended to replicas by PSYNC and its task is running
Registered(l) ==
    /\ \E i \in 1..Len(replicas[Node(l)]) : replicas[Node(l)][i] = l
    /\ pc[l] \notin {"dead", "closed"}

\* the task of e ends the broadcast of its SET in this step
BroadcastStep(e) ==
    /\ pc[e] = "set_bcast"
    /\ pc'[e] = "acct"

\* C27: a SET that the master broadcasts once a replica's connection has been appended
\* to replicas enters the ring of that connection's receiver; a message that does not
\* enter the ring at the send is never received, hence never forwarded.
C27_NoLostWrite ==
    [][ \A e \in ClientEnds : \A l \in LinkOnMaster :
          (BroadcastStep(e) /\ Registered(l)) =>
             /\ Len(bq'[l]) = Len(bq[l]) + 1
             /\ bq'[l][Len(bq'[l])].a = Head1(e).a
      ]_vars


\* the task of e handles a well-formed WAIT for at least one replica on a master that
\* has a replica registered and whose offset is not 0
WaitAtNonZero(e) ==
    /\ Executing(e, "WAIT")
    /\ is_master(Node(e))
    /\ Len(Head1(e).a) >= 3
    /\ parse_u64(Head1(e).a[2]) >= 1
    /\ parse_u64(Head1(e).a[3]) >= 0
    /\ replicas[Node(e)] # <<>>
    /\ master_repl_offset[Node(e)] # 0
    /\ pc'[e] # pc[e]

\* C28: a WAIT that starts with a non-zero master_repl_offset broadcasts one REPLCONF
\* GETACK *, whatever its timeout: it goes on to the first iteration of its loop, and that
\* iteration publishes the GETACK before the handler sleeps.
C28_OneGetAck ==
    [][ \A e \in ClientEnds :
          /\ WaitAtNonZero(e) => pc'[e] = "wait_getack"
          /\ (pc[e] = "wait_getack" /\ pc'[e] # pc[e]) =>
                /\ pc'[e] = "wait_sleep"
                /\ nextId' = nextId + 1
      ]_vars


\* the task of e ends the handling of a WAIT that went through its loop, its reply written
WaitDone(e) ==
    /\ pc[e] = "acct"
    /\ Command(e) = "WAIT"
    /\ w[e].target > 0
    /\ pc'[e] # pc[e]

\* C29: once a WAIT that broadcast a GETACK has written its reply and its handling
\* ends, master_repl_offset exceeds the WAIT's snapshot by at least the encoded length
\* of the GETACK.
C29_GetAckCounted ==
    [][ \A e \in ClientEnds :
          WaitDone(e) =>
             master_repl_offset'[Node(e)] >= w[e].target + GetAckBytes
      ]_vars


\* the places in the wait channel of the offsets that the WAIT of e counts in this step
Counted(e) ==
    {i \in 1..(Len(wc[Node(e)]) - Len(wc'[Node(e)])) : wc[Node(e)][i] >= w[e].target}

\* C30: every offset a WAIT counts was sent to the wait channel by a replica's
\* connection in answer to the GETACK of that WAIT, and no connection is counted twice
\* by one WAIT.
C30_OwnAcksOnly ==
    [][ \A e \in ClientEnds :
          Counts(e) =>
             /\ \A i \in Counted(e) :
                   /\ wcFrom[Node(e)][i].by \in LinkOnMaster
                   /\ wcFrom[Node(e)][i].id = w[e].getack
             /\ \A i, j \in Counted(e) :
                   wcFrom[Node(e)][i].by = wcFrom[Node(e)][j].by => i = j
      ]_vars


\* C31: no handler holds the server mutex while it sleeps or writes to a
\* socket: a connection that is inside the sleep of a handler (the 500 ms
\* pause of PSYNC, between its two writes) does not own the mutex of its
\* node, so the commands of the other connections are never held up by it.
Sleeping(e) == pc[e] \in {"psync_sleep", "wait_sleep"}
C31_NoLockAcrossIO == \A e \in Ends : Sleeping(e) => e \notin lock[Node(e)]


\* C32: a connection is subscribed to the broadcast channel only if its
\* PSYNC was accepted, that is, only if the connection was appended to the
\* replicas of its node; a rejected PSYNC leaves it an ordinary connection.
Accepted(e) == e \in Range(replicas[Node(e)])
C32_SubscribedOnlyIfAccepted == \A n \in Nodes : \A e \in subs[n] : Accepted(e)


\* C33: a replica whose connection was dropped is removed from replicas at
\* the latest when the next broadcast to it fails: once the replica writer
\* of a link has ended on a failed write, the link is no longer counted in
\* replicas, the N of later WAITs.
WriterEnded(l) == pc[l] = "dead" /\ PeerGone(l)
C33_DroppedReplicaRemoved ==
    \A l \in LinkOnMaster : WriterEnded(l) => ~Accepted(l)


\* C34: a SET that the server rejects, one that set::command answers with
\* an error (fewer than three words, or a PX time found missing or not a
\* number), is not broadcast to the replicas and changes neither the
\* keyspace nor master_repl_offset nor repl_offset: no step of the
\* connection that handles it changes them.
Rejected(a) == Len(a) < 3 \/ set_expiry(a) \in {-3, -4}
HandlesRejectedSet(e) ==
    /\ pc[e] \in {"exec", "set_bcast", "acct"}
    /\ buf[e] # <<>>
    /\ to_uppercase(Head1(e).a[1]) = "SET"
    /\ Rejected(Head1(e).a)
RejectedSetStep(e) ==
    HandlesRejectedSet(e) /\ pc'[e] # pc[e]
        => /\ bq' = bq
           /\ db' = db
           /\ master_repl_offset' = master_repl_offset
           /\ repl_offset' = repl_offset
C34_RejectedSetNoEffect == [][\A e \in ClientEnds : RejectedSetStep(e)]_vars


\* C35: a malformed reply from the master at any step of the handshake is
\* fatal: a replica that was sent a reply other than the expected one never
\* reaches the streaming state on that link, and so applies nothing from it.
MalformedReply(l) ==
    \E i \in 1..Min(Len(out[PeerEnd(l)]), Len(HandshakeFrames)) :
        out[PeerEnd(l)][i] # ExpectedReply(i)
Streaming(l) == pc[l] \in {"read", "exec", "set_bcast", "acct"}
C35_MalformedReplyFatal ==
    \A l \in LinkOnReplica : MalformedReply(l) => ~Streaming(l)


\* C36: lag never stops replication to a replica: a replica writer that has
\* fallen more than the ring's capacity behind, and whose replica is still
\* connected, stays subscribed to the broadcast channel and stays in its
\* forwarding loop.
LagStepKeepsWriter(l) ==
    l \in subs[Master] /\ Lagged(l) /\ ~PeerGone(l)
        => l \in subs'[Master] /\ pc'[l] \in {"recv", "ackwait"}
C36_LagKeepsReplicating == [][\A l \in LinkOnMaster : LagStepKeepsWriter(l)]_vars


\* C37: a link that has reached streaming never goes back to the handshake:
\* its connection never processes a PSYNC again, so a connection is
\* appended to replicas at most once.
Appended(e) == {i \in DOMAIN replicas[Node(e)] : replicas[Node(e)][i] = e}
C37_AppendedOnce == \A e \in Ends : Cardinality(Appended(e)) <= 1


\* C38: every command other than PSYNC received on a Main-kind connection
\* produces exactly one reply, on a master and on a replica alike: when the
\* replica's client connection is idle again, it has written as many
\* replies as the commands it has read.
CommandsRead == MaxReads - quota
C38_OneReplyEach ==
    \A e \in ClientEnds :
        ~is_master(Node(e)) /\ pc[e] = "read" => Len(out[e]) = CommandsRead


\* C39: when one read holds complete commands followed by an incomplete
\* one, the decoder succeeds and returns the complete values, which the
\* handler then executes; the incomplete tail is not an error.
Incomplete == Len(codec.bytes) < Len(encode_all(codec.vs, <<>>))
C39_CompleteCommandsKept ==
    (codec.pc = "parsed" /\ Incomplete) =>
        /\ codec.st = "ok"
        /\ codec.data = SubSeq(codec.vs, 1, Len(codec.vs) - 1)


\* the task of e answers an XADD with an ID of the form ms-* on a stream
\* that has entries
XaddStarStep(e) ==
    /\ Executing(e, "XADD")
    /\ Len(Head1(e).a) = 5
    /\ split_once(Head1(e).a[3]) # <<>>
    /\ split_once(Head1(e).a[3])[2] = "*"
    /\ parse_u64(split_once(Head1(e).a[3])[1]) >= 0
    /\ stream_of(Node(e), Head1(e).a[2]) # <<>>
    /\ XaddReplies(e) # <<>>
    /\ pc'[e] = "acct"

\* C40: an XADD ms-* on a non-empty stream resolves seq to last.seq + 1 when
\* ms is the ms of the last entry and to 0 otherwise, last being the ID that
\* was returned for the last entry: the ID such an XADD returns is that one.
C40_StarSequence ==
    [][ \A e \in ClientEnds :
          LET ms == parse_u64(split_once(Head1(e).a[3])[1])
              r == XaddReplies(e)
              last == from_id(r[Len(r)].a[1])
              seq == IF ms = last[1] THEN last[2] + 1 ELSE 0
          IN  (XaddStarStep(e) /\ LastOut(e)'.t = "BulkString")
              => LastOut(e)' = BulkString(format_id(<<ms, seq>>))
      ]_vars

=============================================================================
